---- MODULE Spec2Model ----
(***************************************************************************)
(* A model of Potomatic's batch translation engine: the XML wire codec of  *)
(* src/src/utils/xmlTranslation.js (entity escaping, plural validation,    *)
(* request building and reply parsing), the configuration resolution of   *)
(* src/src/config/index.js, and the language-job scheduler that consumes   *)
(* the resulting configuration.                                            *)
(*                                                                         *)
(* Texts are sequences of tokens.  A token is a string: one of the five    *)
(* XML-special characters, the name part of an entity ("lt;" so that the   *)
(* text &lt; is <<"&", "lt;">>), an ordinary character, or a whole tag.    *)
(***************************************************************************)
EXTENDS Integers, Sequences, FiniteSets, TLC

VARIABLES
    pc,               \* position of the operation under study
    text,             \* entities: the text handed to escapeXmlAttribute
    escaped,          \* entities: escapeXmlAttribute(text)
    decoded,          \* entities: result of decodeXmlEntities
    forms,            \* validatePluralForms: the forms argument
    expectedCount,    \* validatePluralForms: the expectedCount argument
    validated,        \* validatePluralForms: its return value
    batch,            \* codec: the batch of catalog entries
    pluralCount,      \* codec: plural forms the target language requires
    dictionaryCount,  \* codec: dictionary examples preceding the batch
    xmlResponse,      \* codec: the reply text of the remote model
    parsed,           \* codec: the return value of parseXmlResponse
    dictionaryMatches,\* codec: the dictionary examples given to buildXmlPrompt
    prompt,           \* codec: the return value of buildXmlPrompt
    synthetic,        \* codec: the value the reply carries for each batch entry
    dictionaryResponse,\* codec: the return value of buildDictionaryResponse
    args,             \* run: the command-line options given
    defaults,         \* run: the DEFAULTS resolved from the environment
    config,           \* run: the return value of createConfiguration
    jobs,             \* run: the language jobs, in the configured order
    run,              \* run: the run-wide budget counters and the abort flag
    env,              \* start-up: process.env
    opts,             \* start-up: the options given to validateConfiguration
    validation,       \* start-up: the return value of validateConfiguration
    schemaDefault,    \* booleanStringSchema: the defaultValue argument
    schemaInput,      \* booleanStringSchema: the value parsed
    schemaOutput,     \* booleanStringSchema: the result of the parse
    orchestrator,     \* main: how far the orchestrator has come
    returned,         \* main: the value processAllLanguages resolved to
    thrown,           \* main: an exception reached main's catch block
    exitedFrom,       \* main: the place of the process.exit call that ran
    processExit       \* main: the code the process exited with

entityVars == <<text, escaped, decoded>>
pluralVars == <<forms, expectedCount, validated>>
codecVars == <<batch, pluralCount, dictionaryCount, xmlResponse, parsed,
               dictionaryMatches, prompt, synthetic, dictionaryResponse>>
runVars == <<args, defaults, config, jobs, run>>
setupVars == <<env, opts, validation>>
schemaVars == <<schemaDefault, schemaInput, schemaOutput>>
mainVars == <<orchestrator, returned, thrown, exitedFrom, processExit>>
vars == <<pc, entityVars, pluralVars, codecVars, runVars, setupVars, schemaVars,
          mainVars>>

(***************************************************************************)
(* Bounds.                                                                 *)
(***************************************************************************)
MaxTextLen == 3      \* longest text given to the entity functions
MaxFormsLen == 4     \* longest forms array given to validatePluralForms
MaxExpected == 3     \* largest expectedCount given to validatePluralForms
MaxBatch == 2        \* most entries in a batch
MaxDict == 1         \* most dictionary examples in a request
MaxPlural == 2       \* largest pluralCount of a target language
NumLanguages == 3    \* target languages of a run
NumEntries == 2      \* entries to translate in each language

(***************************************************************************)
(* Small helpers.                                                          *)
(***************************************************************************)
Min(a, b) == IF a < b THEN a ELSE b

SeqsUpTo(S, n) == UNION {[1..k -> S] : k \in 0..n}

(***************************************************************************)
(* Entities: escapeXmlAttribute and decodeXmlEntities.                     *)
(***************************************************************************)
SpecialChars == {"&", "\"", "'", "<", ">"}
EntityNames == {"lt;", "gt;", "quot;", "apos;", "amp;"}
Alphabet == SpecialChars \cup EntityNames

\* String.prototype.replace(/&name/g, ch): every occurrence, left to right.
RECURSIVE ReplaceEntity(_, _, _)
ReplaceEntity(t, name, ch) ==
    IF Len(t) = 0 THEN <<>>
    ELSE IF Len(t) >= 2 /\ t[1] = "&" /\ t[2] = name
         THEN <<ch>> \o ReplaceEntity(SubSeq(t, 3, Len(t)), name, ch)
         ELSE <<t[1]>> \o ReplaceEntity(Tail(t), name, ch)

\* String.prototype.replace(/ch/g, '&name'): every occurrence, left to right.
RECURSIVE ReplaceChar(_, _, _)
ReplaceChar(t, ch, name) ==
    IF Len(t) = 0 THEN <<>>
    ELSE (IF t[1] = ch THEN <<"&", name>> ELSE <<t[1]>>)
         \o ReplaceChar(Tail(t), ch, name)

\* The ampersand is decoded first: a second level of entities gets decoded too.
decodeAmpFirst(t) ==
    IF t = <<>> THEN <<>>
    ELSE ReplaceEntity(ReplaceEntity(ReplaceEntity(ReplaceEntity(ReplaceEntity(
             t, "amp;", "&"), "lt;", "<"), "gt;", ">"), "quot;", "\""), "apos;", "'")

decodeXmlEntities(t) ==
    IF t = <<>> THEN <<>>
    ELSE ReplaceEntity(ReplaceEntity(ReplaceEntity(ReplaceEntity(ReplaceEntity(
             t, "lt;", "<"), "gt;", ">"), "quot;", "\""), "apos;", "'"), "amp;", "&")

escapeXmlAttribute(t) ==
    IF t = <<>> THEN <<>>
    ELSE ReplaceChar(ReplaceChar(ReplaceChar(ReplaceChar(ReplaceChar(
             t, "&", "amp;"), "\"", "quot;"), "'", "apos;"), "<", "lt;"), ">", "gt;")

(***************************************************************************)
(* Plural policy: validatePluralForms.                                     *)
(***************************************************************************)
Whitespace == {" "}

\* f && f.trim() !== ''
NonBlank(f) == \E i \in 1..Len(f) : f[i] \notin Whitespace

RECURSIVE Pad(_, _)
Pad(fs, n) == IF Len(fs) < n THEN Pad(Append(fs, <<>>), n) ELSE fs

nonEmptyCount(fs) == Cardinality({i \in 1..Len(fs) : NonBlank(fs[i])})

\* The length branches without the incomplete-forms check of lines 152-170.
validateLengthOnly(fs, expected) ==
    [correctedForms |-> IF Len(fs) < expected THEN Pad(fs, expected)
                        ELSE SubSeq(fs, 1, Min(Len(fs), expected)),
     hasIssues |-> Len(fs) # expected]

\* Truncation keeps the last expected forms instead of the first.
validateKeepLast(fs, expected) ==
    LET corrected == IF Len(fs) < expected THEN Pad(fs, expected)
                     ELSE SubSeq(fs, Len(fs) - expected + 1, Len(fs))
        n == nonEmptyCount(corrected)
    IN  [correctedForms |-> corrected,
         hasIssues |-> (Len(fs) # expected) \/ (n > 0 /\ n < expected)]

validatePluralForms(fs, expected) ==
    LET corrected == IF Len(fs) < expected THEN Pad(fs, expected)
                     ELSE IF Len(fs) > expected THEN SubSeq(fs, 1, expected)
                     ELSE fs
        n == nonEmptyCount(corrected)
    IN  [correctedForms |-> corrected,
         hasIssues |-> (Len(fs) < expected) \/ (Len(fs) > expected)
                       \/ (n > 0 /\ n < expected)]

(***************************************************************************)
(* Reply parsing: parseXmlResponse.  A reply is a text whose tokens        *)
(* include whole tags: <t i="n">, <t>, </t>, <fN>, </fN>.                  *)
(***************************************************************************)
MaxIndex == MaxDict + MaxBatch + 1

CloseTag == "</t>"
NoIndexTag == "<t>"
OpenTag(n) == "<t i=\"" \o ToString(n) \o "\">"
FormOpen(i) == "<f" \o ToString(i) \o ">"
FormClose(i) == "</f" \o ToString(i) \o ">"

IndexedTags == {OpenTag(n) : n \in 0..MaxIndex}
OpenTags == IndexedTags \cup {NoIndexTag}

\* The first position at or after p of s holding a token of T; 0 if none.
RECURSIVE FirstIn(_, _, _)
FirstIn(s, p, T) ==
    IF p > Len(s) THEN 0
    ELSE IF s[p] \in T THEN p
    ELSE FirstIn(s, p + 1, T)

\* An opening tag without its closing tag counts as a block up to the end.
RECURSIVE blocksUnclosed(_, _)
blocksUnclosed(s, p) ==
    LET o == FirstIn(s, p, OpenTags)
        c == IF o = 0 THEN 0 ELSE FirstIn(s, o + 1, {CloseTag})
    IN  IF o = 0 THEN <<>>
        ELSE IF c = 0 THEN << SubSeq(s, o, Len(s)) \o <<CloseTag>> >>
        ELSE << SubSeq(s, o, c) >> \o blocksUnclosed(s, c + 1)

\* xmlResponse.match(/<t[^>]*>[\s\S]*?<\/t>/g) from position p on: each match
\* runs from an opening tag to the first closing tag after it.
RECURSIVE translationBlocks(_, _)
translationBlocks(s, p) ==
    LET o == FirstIn(s, p, OpenTags)
        c == IF o = 0 THEN 0 ELSE FirstIn(s, o + 1, {CloseTag})
    IN  IF c = 0 THEN <<>>
        ELSE << SubSeq(s, o, c) >> \o translationBlocks(s, c + 1)

NoIndex == -1

\* block.match(/i="(\d+)"/) and parseInt(indexMatch[1], 10).
responseIndexOf(block) ==
    LET p == FirstIn(block, 1, IndexedTags)
    IN  IF p = 0 THEN NoIndex
        ELSE CHOOSE n \in 0..MaxIndex : OpenTag(n) = block[p]

\* The dictionary offset is forgotten.
batchIndexNoOffset(responseIndex, dictCount) == responseIndex - 1

batchIndexOf(responseIndex, dictCount) == responseIndex - dictCount - 1

\* block.match(new RegExp(`<f${i}>(.*?)</f${i}>`, 's'))
formMatch(block, i) ==
    LET o == FirstIn(block, 1, {FormOpen(i)})
        c == IF o = 0 THEN 0 ELSE FirstIn(block, o + 1, {FormClose(i)})
    IN  IF c = 0 THEN [matched |-> FALSE, content |-> <<>>]
        ELSE [matched |-> TRUE, content |-> SubSeq(block, o + 1, c - 1)]

\* The loop of lines 250-264 over i = 0 .. pluralCount - 1.
blockForms(block, count) ==
    [i \in 1..count |->
        LET m == formMatch(block, i - 1)
        IN  IF m.matched THEN decodeXmlEntities(m.content) ELSE <<>>]

hasFormTags(block) == \E p \in 1..Len(block) : block[p] = FormOpen(0)

\* block.match(/<t[^>]*>(.*?)<\/t>/s)[1]
blockContent(block) == SubSeq(block, 2, Len(block) - 1)

\* A single empty form whatever the plural count.
emptyFormsSingle(count) == << <<>> >>

\* Array(pluralCount).fill('')
emptyForms(count) == [i \in 1..count |-> <<>>]

createEmptyValidationStats == [stringsWithPluralIssues |-> 0]

\* One iteration of translationBlocks.forEach: acc is the pair of result and
\* validationStats built so far.
processBlock(acc, block, entries, count, dictCount) ==
    LET responseIndex == responseIndexOf(block)
        batchIndex == batchIndexOf(responseIndex, dictCount)
        translation == decodeXmlEntities(blockContent(block))
        v == IF hasFormTags(block)
             THEN validatePluralForms(blockForms(block, count), count)
             ELSE validatePluralForms(<<translation>>, count)
        store(fs, issue) ==
            [translations |->
                 [acc.translations EXCEPT ![batchIndex + 1].msgstr = fs],
             validationStats |->
                 [stringsWithPluralIssues |->
                      acc.validationStats.stringsWithPluralIssues
                          + (IF issue THEN 1 ELSE 0)]]
    IN  IF responseIndex = NoIndex THEN acc
        ELSE IF responseIndex <= dictCount THEN acc
        ELSE IF batchIndex < 0 \/ batchIndex >= Len(entries) THEN acc
        ELSE IF hasFormTags(block) THEN store(v.correctedForms, v.hasIssues)
        ELSE IF entries[batchIndex + 1].msgid_plural
             THEN store(v.correctedForms, v.hasIssues)
             ELSE store(<<translation>>, FALSE)

RECURSIVE processBlocks(_, _, _, _, _)
processBlocks(acc, blocks, entries, count, dictCount) ==
    IF blocks = <<>> THEN acc
    ELSE processBlocks(processBlock(acc, Head(blocks), entries, count, dictCount),
                       Tail(blocks), entries, count, dictCount)

\* xmlResponse.trim() === ''
isBlank(s) == \A i \in 1..Len(s) : s[i] \in Whitespace

parseXmlResponse(xml, entries, count, dictCount) ==
    LET result == [k \in 1..Len(entries) |->
                      [msgid |-> entries[k].msgid, msgstr |-> emptyForms(count)]]
        empty == [translations |-> result,
                  validationStats |-> createEmptyValidationStats]
        blocks == translationBlocks(xml, 1)
    IN  IF xml = <<>> \/ isBlank(xml) THEN empty
        ELSE IF blocks = <<>> THEN empty
        ELSE processBlocks(empty, blocks, entries, count, dictCount)


(***************************************************************************)
(* Request building: buildXmlPrompt.  The request document is kept as its  *)
(* <source> tags in order (index attribute and escaped body) and the form  *)
(* tags of the format line.                                                *)
(***************************************************************************)
\* The batch is numbered from 1 whatever the number of dictionary examples.
buildXmlPromptFromOne(entries, count, matches) ==
    [xmlPrompt |->
         [examples |-> [j \in 1..Len(matches) |->
                           [i |-> j, body |-> escapeXmlAttribute(matches[j].source)]],
          sources |-> [k \in 1..Len(entries) |->
                          [i |-> k, body |-> escapeXmlAttribute(entries[k].msgid)]],
          formTags |-> IF \E k \in 1..Len(entries) : entries[k].msgid_plural
                       THEN [i \in 1..count |-> FormOpen(i - 1)]
                       ELSE <<>>],
     dictionaryCount |-> Len(matches),
     metadata |-> [hasDictionary |-> Len(matches) > 0,
                   dictionaryEntries |-> Len(matches),
                   batchStartIndex |-> 1]]

buildXmlPrompt(entries, count, matches) ==
    LET startIndex == IF Len(matches) > 0 THEN Len(matches) + 1 ELSE 1
        hasPlurals == \E k \in 1..Len(entries) : entries[k].msgid_plural
    IN  [xmlPrompt |->
             [examples |-> [j \in 1..Len(matches) |->
                               [i |-> j,
                                body |-> escapeXmlAttribute(matches[j].source)]],
              sources |-> [k \in 1..Len(entries) |->
                              [i |-> startIndex + (k - 1),
                               body |-> escapeXmlAttribute(entries[k].msgid)]],
              formTags |-> IF hasPlurals
                           THEN [i \in 1..count |-> FormOpen(i - 1)]
                           ELSE <<>>],
         dictionaryCount |-> Len(matches),
         metadata |-> [hasDictionary |-> Len(matches) > 0,
                       dictionaryEntries |-> Len(matches),
                       batchStartIndex |-> startIndex]]

\* The expected answer for the dictionary examples, kept as its <t> blocks in
\* order (index attribute and escaped body).
buildDictionaryResponseFromZero(matches) ==
    [j \in 1..Len(matches) |->
        [i |-> j - 1, body |-> escapeXmlAttribute(matches[j].target)]]

buildDictionaryResponse(matches) ==
    [j \in 1..Len(matches) |->
        [i |-> j, body |-> escapeXmlAttribute(matches[j].target)]]


(***************************************************************************)
(* Configuration: parseCliArguments and createConfiguration.  A JavaScript *)
(* value is a record: a number, NaN, undefined, null or a string.  A       *)
(* command-line value is a text of characters, absent when the option is   *)
(* not given; a name (a provider, a key, a path) is a text of one token.   *)
(***************************************************************************)
Num(n) == [t |-> "num", n |-> n]
NaN == [t |-> "nan", n |-> 0]
Undefined == [t |-> "undef", n |-> 0]
Null == [t |-> "null", n |-> 0]
Str(s) == [t |-> "str", n |-> 0, s |-> s]
Arr(xs) == [t |-> "arr", n |-> 0, s |-> xs]

IsNum(v) == v.t = "num"

\* JavaScript truthiness: a number other than 0, a string other than '',
\* any array.
Truthy(v) ==
    \/ v.t = "num" /\ v.n # 0
    \/ v.t = "str" /\ Len(v.s) > 0
    \/ v.t = "arr"

\* a || b
JsOr(a, b) == IF Truthy(a) THEN a ELSE b

\* Math.min and Math.max: NaN when either argument is NaN.
MathMin(a, b) == IF ~IsNum(a) \/ ~IsNum(b) THEN NaN ELSE IF a.n < b.n THEN a ELSE b
MathMax(a, b) == IF ~IsNum(a) \/ ~IsNum(b) THEN NaN ELSE IF a.n > b.n THEN a ELSE b

Digits == <<"0", "1", "2", "3", "4", "5", "6", "7", "8", "9">>
IsDigit(c) == \E d \in 1..10 : Digits[d] = c
DigitValue(c) == (CHOOSE d \in 1..10 : Digits[d] = c) - 1

\* The value of the leading digits of s, after the digits read so far.
RECURSIVE ReadDigits(_, _)
ReadDigits(s, acc) ==
    IF s = <<>> \/ ~IsDigit(Head(s)) THEN acc
    ELSE ReadDigits(Tail(s), 10 * acc + DigitValue(Head(s)))

\* parseInt(val, 10): an optional sign and the leading digits; NaN without one.
parseInt(s) ==
    LET negative == s # <<>> /\ Head(s) = "-"
        body == IF negative THEN Tail(s) ELSE s
    IN  IF body = <<>> \/ ~IsDigit(Head(body)) THEN NaN
        ELSE Num((IF negative THEN -1 ELSE 1) * ReadDigits(body, 0))

\* parseFloat(val), on the texts of whole numbers this model gives it.
parseFloat(s) == parseInt(s)

\* (val) => Math.max(lo, Math.min(hi, parseInt(val, 10)))
clampInt(lo, hi, s) == MathMax(Num(lo), MathMin(Num(hi), parseInt(s)))

\* (val) => Math.max(lo, parseInt(val, 10))
atLeastInt(lo, s) == MathMax(Num(lo), parseInt(s))

Absent == [given |-> FALSE, text |-> <<>>]
Given(s) == [given |-> TRUE, text |-> s]

\* String.prototype.trim, on a text of characters.
RECURSIVE trimStart(_)
trimStart(s) ==
    IF s # <<>> /\ Head(s) \in {" ", "\t", "\n"} THEN trimStart(Tail(s)) ELSE s

RECURSIVE trimEnd(_)
trimEnd(s) ==
    IF s # <<>> /\ s[Len(s)] \in {" ", "\t", "\n"}
    THEN trimEnd(SubSeq(s, 1, Len(s) - 1))
    ELSE s

trim(s) == trimEnd(trimStart(s))

\* value.split(','): the pieces of a text between its commas.
RECURSIVE splitFrom(_, _, _)
splitFrom(s, piece, pieces) ==
    IF s = <<>> THEN Append(pieces, piece)
    ELSE IF Head(s) = "," THEN splitFrom(Tail(s), <<>>, Append(pieces, piece))
    ELSE splitFrom(Tail(s), Append(piece, Head(s)), pieces)

split(s) == splitFrom(s, <<>>, <<>>)

\* previous.join(',')
RECURSIVE join(_)
join(pieces) ==
    IF pieces = <<>> THEN <<>>
    ELSE IF Len(pieces) = 1 THEN pieces[1]
    ELSE pieces[1] \o <<",">> \o join(Tail(pieces))

\* .map((lang) => lang.trim())
trimAll(pieces) == [i \in 1..Len(pieces) |-> trim(pieces[i])]

\* .filter((lang) => lang.length > 0)
nonEmpty(pieces) == SelectSeq(pieces, LAMBDA piece : Len(piece) > 0)

\* Number.prototype.toString, on 0..9.
toString(v) == Str(<<Digits[v.n + 1]>>)

\* The string a text of tokens stands for.
RECURSIVE stringOf(_)
stringOf(s) == IF s = <<>> THEN "" ELSE Head(s) \o stringOf(Tail(s))

\* String.prototype.toUpperCase, on the provider names of this model.
toUpperCase(name) ==
    CASE name = "gemini" -> "GEMINI"
      [] name = "anthropic" -> "ANTHROPIC"
      [] name = "cohere" -> "COHERE"
      [] name = "openai" -> "OPENAI"
      [] name = "mistral" -> "MISTRAL"
      [] OTHER -> name

\* process.env[name]: undefined for a variable that is not set.
getenv(processEnv, name) ==
    IF name \in DOMAIN processEnv THEN processEnv[name] ELSE Undefined

\* z.string().default(d) and z.string().optional()
zDefault(v, d) == IF v.t = "undef" THEN d ELSE v

\* Number(text): 0 for a text of blanks, the value of a whole numeral with
\* an optional sign, NaN for any other text.
Number(s) ==
    LET body == IF trim(s) # <<>> /\ Head(trim(s)) = "-"
                THEN Tail(trim(s)) ELSE trim(s)
    IN  IF trim(s) = <<>> THEN Num(0)
        ELSE IF body # <<>> /\ \A p \in 1..Len(body) : IsDigit(body[p])
             THEN parseInt(trim(s))
             ELSE NaN

\* z.coerce.number() with a default.
zNumber(v, d) == IF v.t = "undef" THEN d ELSE Number(v.s)

\* .int().min(lo).max(hi): the coerced value is a number inside lo..hi.
zAccepts(v, lo, hi) ==
    IF v.t = "undef" THEN TRUE
    ELSE IsNum(Number(v.s)) /\ Number(v.s).n \in lo..hi

\* String.prototype.toLowerCase, character by character.
lowerChar(c) ==
    CASE c = "T" -> "t" [] c = "R" -> "r" [] c = "U" -> "u" [] c = "E" -> "e"
      [] c = "F" -> "f" [] c = "A" -> "a" [] c = "L" -> "l" [] c = "S" -> "s"
      [] c = "Y" -> "y" [] c = "N" -> "n" [] c = "O" -> "o"
      [] OTHER -> c

toLowerCase(s) == [i \in 1..Len(s) |-> lowerChar(s[i])]

\* z.enum(['true', 'false', '1', '0', ''])
BooleanStrings ==
    {<<"t", "r", "u", "e">>, <<"f", "a", "l", "s", "e">>, <<"1">>, <<"0">>, <<>>}

\* The value a schema rejects.
Rejected == [success |-> FALSE, data |-> FALSE]

\* The empty string is given the default.
booleanStringEmptyIsDefault(defaultValue, v) ==
    LET val == IF v.t = "undef" THEN <<>> ELSE toLowerCase(trim(v.s))
    IN  IF val \notin BooleanStrings THEN Rejected
        ELSE [success |-> TRUE,
              data |-> IF val = <<>> THEN defaultValue
                       ELSE val \in {<<"t", "r", "u", "e">>, <<"1">>}]

\* booleanStringSchema(defaultValue), parsing v: an absent value is replaced
\* by the text of the default, the text is trimmed and lower-cased, checked
\* against the enumeration and compared with 'true' and '1'.
booleanStringSchema(defaultValue, v) ==
    LET given == IF v.t # "undef" THEN v.s
                 ELSE IF defaultValue THEN <<"t", "r", "u", "e">>
                 ELSE <<"f", "a", "l", "s", "e">>
        val == toLowerCase(trim(given))
    IN  IF val \notin BooleanStrings THEN Rejected
        ELSE [success |-> TRUE,
              data |-> val = <<"t", "r", "u", "e">> \/ val = <<"1">>]

\* The default of TEMPERATURE, 0.7, kept apart from the whole numbers.
SevenTenths == [t |-> "num", n |-> 7, tenths |-> TRUE]

\* envSchema.parse(process.env): only the variables of the schema are kept.
parseEnvironmentConfig(processEnv) ==
    [PROVIDER |-> zDefault(getenv(processEnv, "PROVIDER"), Str(<<"openai">>)),
     POTOMATIC_API_KEY |-> getenv(processEnv, "POTOMATIC_API_KEY"),
     POTOMATIC_OPENAI_API_KEY |-> getenv(processEnv, "POTOMATIC_OPENAI_API_KEY"),
     POTOMATIC_GEMINI_API_KEY |-> getenv(processEnv, "POTOMATIC_GEMINI_API_KEY"),
     OPENAI_API_KEY |-> getenv(processEnv, "OPENAI_API_KEY"),
     GEMINI_API_KEY |-> getenv(processEnv, "GEMINI_API_KEY"),
     API_KEY |-> getenv(processEnv, "API_KEY"),
     MODEL |-> zDefault(getenv(processEnv, "MODEL"), Str(<<"gpt-4o-mini">>)),
     BATCH_SIZE |-> zNumber(getenv(processEnv, "BATCH_SIZE"), Num(20)),
     CONCURRENT_JOBS |-> zNumber(getenv(processEnv, "CONCURRENT_JOBS"), Num(2)),
     TEMPERATURE |-> zNumber(getenv(processEnv, "TEMPERATURE"), SevenTenths),
     TIMEOUT |-> zNumber(getenv(processEnv, "TIMEOUT"), Num(60)),
     MAX_RETRIES |-> zNumber(getenv(processEnv, "MAX_RETRIES"), Num(3)),
     RETRY_DELAY |-> zNumber(getenv(processEnv, "RETRY_DELAY"), Num(2000)),
     ABORT_ON_FAILURE |->
         booleanStringSchema(FALSE, getenv(processEnv, "ABORT_ON_FAILURE")).data,
     SKIP_LANGUAGE_ON_FAILURE |->
         booleanStringSchema(FALSE, getenv(processEnv, "SKIP_LANGUAGE_ON_FAILURE")).data,
     MAX_COST |-> zNumber(getenv(processEnv, "MAX_COST"), Undefined),
     MAX_STRINGS_PER_JOB |->
         zNumber(getenv(processEnv, "MAX_STRINGS_PER_JOB"), Undefined),
     MAX_TOTAL_STRINGS |->
         zNumber(getenv(processEnv, "MAX_TOTAL_STRINGS"), Undefined),
     TARGET_LANGUAGES |-> getenv(processEnv, "TARGET_LANGUAGES"),
     POT_FILE_PATH |-> getenv(processEnv, "POT_FILE_PATH"),
     VERBOSE_LEVEL |-> zNumber(getenv(processEnv, "VERBOSE_LEVEL"), Num(1)),
     DRY_RUN |-> booleanStringSchema(FALSE, getenv(processEnv, "DRY_RUN")).data,
     FORCE_TRANSLATE |->
         booleanStringSchema(FALSE, getenv(processEnv, "FORCE_TRANSLATE")).data]

\* envSchema.parse(process.env) does not throw: every number is inside its
\* range and every flag is one of the boolean strings.
envSchemaAccepts(processEnv) ==
    /\ zAccepts(getenv(processEnv, "BATCH_SIZE"), 1, 100)
    /\ zAccepts(getenv(processEnv, "CONCURRENT_JOBS"), 1, 10)
    /\ zAccepts(getenv(processEnv, "TEMPERATURE"), 0, 2)
    /\ zAccepts(getenv(processEnv, "TIMEOUT"), 10, 300)
    /\ zAccepts(getenv(processEnv, "MAX_RETRIES"), 0, 10)
    /\ zAccepts(getenv(processEnv, "RETRY_DELAY"), 500, 30000)
    /\ zAccepts(getenv(processEnv, "VERBOSE_LEVEL"), 0, 3)
    /\ \A flag \in {"ABORT_ON_FAILURE", "SKIP_LANGUAGE_ON_FAILURE",
                     "DRY_RUN", "FORCE_TRANSLATE"} :
          booleanStringSchema(FALSE, getenv(processEnv, flag)).success

knownProviders == <<"gemini", "anthropic", "cohere", "openai">>

\* The first known provider whose key variable, with the given prefix, is
\* set to a non-empty value; null when there is none.
firstProviderWithKey(processEnv, prefix) ==
    LET hits == {i \in 1..Len(knownProviders) :
                    Truthy(getenv(processEnv,
                                  prefix \o toUpperCase(knownProviders[i])
                                         \o "_API_KEY"))}
    IN  IF hits = {} THEN Null
        ELSE Str(<<knownProviders[CHOOSE i \in hits : \A j \in hits : i <= j]>>)

\* POTOMATIC_<PROVIDER>_API_KEY is looked for first, then <PROVIDER>_API_KEY.
detectProviderFromEnv(processEnv) ==
    LET potomatic == firstProviderWithKey(processEnv, "POTOMATIC_")
    IN  IF potomatic.t # "null" THEN potomatic
        ELSE firstProviderWithKey(processEnv, "")

\* ENV_CONFIG.PROVIDER || DETECTED_PROVIDER || 'openai'
RESOLVED_PROVIDER(ENV_CONFIG, DETECTED_PROVIDER) ==
    JsOr(JsOr(ENV_CONFIG.PROVIDER, DETECTED_PROVIDER), Str(<<"openai">>))

\* The DEFAULTS object, built once from the environment at module load.
Defaults(processEnv) ==
    LET ENV_CONFIG == parseEnvironmentConfig(processEnv)
        DETECTED_PROVIDER == detectProviderFromEnv(processEnv)
    IN  [PROVIDER |-> RESOLVED_PROVIDER(ENV_CONFIG, DETECTED_PROVIDER),
         BATCH_SIZE |-> ENV_CONFIG.BATCH_SIZE,
         MODEL |-> ENV_CONFIG.MODEL,
         VERBOSE_LEVEL |-> ENV_CONFIG.VERBOSE_LEVEL,
         CONCURRENT_JOBS |-> ENV_CONFIG.CONCURRENT_JOBS,
         MAX_RETRIES |-> ENV_CONFIG.MAX_RETRIES,
         RETRY_DELAY |-> ENV_CONFIG.RETRY_DELAY,
         ABORT_ON_FAILURE |-> ENV_CONFIG.ABORT_ON_FAILURE,
         SKIP_LANGUAGE_ON_FAILURE |-> ENV_CONFIG.SKIP_LANGUAGE_ON_FAILURE,
         TEMPERATURE |-> ENV_CONFIG.TEMPERATURE,
         TIMEOUT |-> ENV_CONFIG.TIMEOUT,
         MAX_COST |-> ENV_CONFIG.MAX_COST,
         MAX_STRINGS_PER_JOB |-> ENV_CONFIG.MAX_STRINGS_PER_JOB,
         MAX_TOTAL_STRINGS |-> ENV_CONFIG.MAX_TOTAL_STRINGS,
         DRY_RUN |-> ENV_CONFIG.DRY_RUN,
         FORCE_TRANSLATE |-> ENV_CONFIG.FORCE_TRANSLATE,
         TARGET_LANGUAGES |-> ENV_CONFIG.TARGET_LANGUAGES,
         POT_FILE_PATH |-> ENV_CONFIG.POT_FILE_PATH]

\* The default of --target-languages: the pieces of TARGET_LANGUAGES.
defaultLanguages(DEFAULTS) ==
    IF Truthy(DEFAULTS.TARGET_LANGUAGES)
    THEN trimAll(split(DEFAULTS.TARGET_LANGUAGES.s))
    ELSE <<>>

\* The parser of --target-languages: the languages given are added to the
\* previous value, or replace it when it is the environment's default.
targetLanguagesOption(value, previous, DEFAULTS) ==
    LET langs == nonEmpty(trimAll(split(value)))
        isFirstCliArgument ==
            /\ Len(previous) > 0
            /\ Truthy(DEFAULTS.TARGET_LANGUAGES)
            /\ join(previous) = DEFAULTS.TARGET_LANGUAGES.s
    IN  IF isFirstCliArgument THEN langs ELSE previous \o langs

\* The parser of --verbose-level.
verboseLevelOption(value, DEFAULTS) ==
    LET parsedLevel == parseInt(value)
    IN  IF parsedLevel.t = "nan" THEN DEFAULTS.VERBOSE_LEVEL
        ELSE MathMax(Num(0), MathMin(Num(3), parsedLevel))

\* program.parse(process.argv).opts(): an option given on the command line
\* goes through its parser, an option not given takes its DEFAULTS value.
programOpts(argv, DEFAULTS) ==
    [batchSize |-> IF argv.batchSize.given
                   THEN clampInt(1, 100, argv.batchSize.text)
                   ELSE DEFAULTS.BATCH_SIZE,
     jobs |-> IF argv.jobs.given
              THEN clampInt(1, 10, argv.jobs.text)
              ELSE DEFAULTS.CONCURRENT_JOBS,
     maxStringsPerJob |-> IF argv.maxStringsPerJob.given
                          THEN atLeastInt(1, argv.maxStringsPerJob.text)
                          ELSE DEFAULTS.MAX_STRINGS_PER_JOB,
     maxTotalStrings |-> IF argv.maxTotalStrings.given
                         THEN atLeastInt(1, argv.maxTotalStrings.text)
                         ELSE DEFAULTS.MAX_TOTAL_STRINGS,
     maxCost |-> IF argv.maxCost.given
                 THEN parseFloat(argv.maxCost.text)
                 ELSE DEFAULTS.MAX_COST,
     maxRetries |-> IF argv.maxRetries.given
                    THEN clampInt(0, 10, argv.maxRetries.text)
                    ELSE DEFAULTS.MAX_RETRIES,
     abortOnFailure |-> argv.abortOnFailure \/ DEFAULTS.ABORT_ON_FAILURE,
     skipLanguageOnFailure |->
         argv.skipLanguageOnFailure \/ DEFAULTS.SKIP_LANGUAGE_ON_FAILURE,
     forceTranslate |-> argv.forceTranslate \/ DEFAULTS.FORCE_TRANSLATE,
     targetLanguages |->
         Arr(IF argv.targetLanguages.given
             THEN targetLanguagesOption(argv.targetLanguages.text,
                                        defaultLanguages(DEFAULTS), DEFAULTS)
             ELSE defaultLanguages(DEFAULTS)),
     potFilePath |-> IF argv.potFilePath.given
                     THEN Str(argv.potFilePath.text)
                     ELSE DEFAULTS.POT_FILE_PATH,
     provider |-> IF argv.provider.given THEN Str(argv.provider.text)
                  ELSE DEFAULTS.PROVIDER,
     apiKey |-> IF argv.apiKey.given THEN Str(argv.apiKey.text) ELSE Undefined,
     model |-> IF argv.model.given THEN Str(argv.model.text)
               ELSE DEFAULTS.MODEL,
     temperature |-> IF argv.temperature.given
                     THEN MathMax(Num(0), MathMin(Num(2),
                                          parseFloat(argv.temperature.text)))
                     ELSE DEFAULTS.TEMPERATURE,
     verboseLevel |-> IF argv.verboseLevel.given
                      THEN verboseLevelOption(argv.verboseLevel.text, DEFAULTS)
                      ELSE toString(DEFAULTS.VERBOSE_LEVEL),
     dryRun |-> argv.dryRun \/ DEFAULTS.DRY_RUN,
     retryDelay |-> IF argv.retryDelay.given
                    THEN clampInt(500, 30000, argv.retryDelay.text)
                    ELSE DEFAULTS.RETRY_DELAY,
     timeout |-> IF argv.timeout.given
                 THEN clampInt(10, 300, argv.timeout.text)
                 ELSE DEFAULTS.TIMEOUT]

\* --jobs is stored as parsed, without the clamp to 1..10.
parseCliArgumentsNoClamp(argv, DEFAULTS) ==
    [programOpts(argv, DEFAULTS) EXCEPT
        !.jobs = IF argv.jobs.given THEN parseInt(argv.jobs.text)
                 ELSE DEFAULTS.CONCURRENT_JOBS]

\* --max-total-strings is not read from the command line.
parseCliArgumentsNoTotal(argv, DEFAULTS) ==
    [programOpts(argv, DEFAULTS) EXCEPT
        !.maxTotalStrings = DEFAULTS.MAX_TOTAL_STRINGS]

\* parseCliArguments returns the options object.
parseCliArguments(argv, DEFAULTS) == programOpts(argv, DEFAULTS)

\* The key of the configuration: options.apiKey, then the provider's two
\* variables, then the two generic ones, each read from ENV_CONFIG.
resolveApiKey(options, DEFAULTS, ENV_CONFIG) ==
    LET provider == JsOr(options.provider, DEFAULTS.PROVIDER)
        providerUpper == toUpperCase(stringOf(provider.s))
        potomacProviderKey ==
            getenv(ENV_CONFIG, "POTOMATIC_" \o providerUpper \o "_API_KEY")
        standardProviderKey == getenv(ENV_CONFIG, providerUpper \o "_API_KEY")
    IN  JsOr(JsOr(JsOr(JsOr(options.apiKey, potomacProviderKey),
                       standardProviderKey),
                  ENV_CONFIG.POTOMATIC_API_KEY),
             ENV_CONFIG.API_KEY)

\* The object createConfiguration returns: each option, or its DEFAULTS
\* value when the option is falsy.
mergeWithDefaults(options, DEFAULTS, ENV_CONFIG) ==
    [apiKey |-> resolveApiKey(options, DEFAULTS, ENV_CONFIG),
     timeout |-> JsOr(options.timeout, DEFAULTS.TIMEOUT),
     retryDelayMs |-> JsOr(options.retryDelay, DEFAULTS.RETRY_DELAY),
     batchSize |-> JsOr(options.batchSize, DEFAULTS.BATCH_SIZE),
     concurrentJobs |-> JsOr(options.jobs, DEFAULTS.CONCURRENT_JOBS),
     maxStrings |-> JsOr(options.maxStringsPerJob, DEFAULTS.MAX_STRINGS_PER_JOB),
     maxStringsTotal |-> JsOr(options.maxTotalStrings, DEFAULTS.MAX_TOTAL_STRINGS),
     maxCost |-> JsOr(options.maxCost, DEFAULTS.MAX_COST),
     maxRetries |-> JsOr(options.maxRetries, DEFAULTS.MAX_RETRIES),
     stopOnMaxRetriesFailure |-> options.abortOnFailure \/ DEFAULTS.ABORT_ON_FAILURE,
     skipJobOnMaxRetriesFailure |->
         options.skipLanguageOnFailure \/ DEFAULTS.SKIP_LANGUAGE_ON_FAILURE,
     forceTranslate |-> options.forceTranslate \/ DEFAULTS.FORCE_TRANSLATE,
     provider |-> JsOr(options.provider, DEFAULTS.PROVIDER),
     model |-> JsOr(options.model, DEFAULTS.MODEL),
     potFilePath |-> JsOr(options.potFilePath, DEFAULTS.POT_FILE_PATH),
     temperature |-> JsOr(options.temperature, DEFAULTS.TEMPERATURE),
     verboseLevel |-> JsOr(options.verboseLevel, DEFAULTS.VERBOSE_LEVEL),
     dryRun |-> options.dryRun \/ DEFAULTS.DRY_RUN]

\* --skip-language-on-failure is not carried into the configuration.
createConfigurationNoSkip(options, DEFAULTS, ENV_CONFIG) ==
    [mergeWithDefaults(options, DEFAULTS, ENV_CONFIG) EXCEPT
        !.skipJobOnMaxRetriesFailure = DEFAULTS.SKIP_LANGUAGE_ON_FAILURE]

\* --abort-on-failure is not carried into the configuration.
createConfigurationNoStop(options, DEFAULTS, ENV_CONFIG) ==
    [mergeWithDefaults(options, DEFAULTS, ENV_CONFIG) EXCEPT
        !.stopOnMaxRetriesFailure = DEFAULTS.ABORT_ON_FAILURE]

\* maxStringsTotal is taken from the per-job option.
createConfigurationSwapped(options, DEFAULTS, ENV_CONFIG) ==
    [mergeWithDefaults(options, DEFAULTS, ENV_CONFIG) EXCEPT
        !.maxStrings = JsOr(options.maxTotalStrings, DEFAULTS.MAX_TOTAL_STRINGS),
        !.maxStringsTotal = JsOr(options.maxStringsPerJob,
                                 DEFAULTS.MAX_STRINGS_PER_JOB)]

\* batchSize is taken from the --jobs option.
createConfigurationBatchOfJobs(options, DEFAULTS, ENV_CONFIG) ==
    [mergeWithDefaults(options, DEFAULTS, ENV_CONFIG) EXCEPT
        !.batchSize = JsOr(options.jobs, DEFAULTS.CONCURRENT_JOBS)]

\* --force-translate is always on.
createConfigurationForced(options, DEFAULTS, ENV_CONFIG) ==
    [mergeWithDefaults(options, DEFAULTS, ENV_CONFIG) EXCEPT !.forceTranslate = TRUE]

createConfiguration(options, DEFAULTS, ENV_CONFIG) ==
    mergeWithDefaults(options, DEFAULTS, ENV_CONFIG)

\* An options object with no property set.
NoOptions ==
    [batchSize |-> Undefined, jobs |-> Undefined,
     maxStringsPerJob |-> Undefined, maxTotalStrings |-> Undefined,
     maxCost |-> Undefined, maxRetries |-> Undefined,
     abortOnFailure |-> FALSE, skipLanguageOnFailure |-> FALSE,
     forceTranslate |-> FALSE, targetLanguages |-> Undefined,
     potFilePath |-> Undefined, provider |-> Undefined, apiKey |-> Undefined,
     model |-> Undefined, temperature |-> Undefined,
     verboseLevel |-> Undefined, dryRun |-> FALSE,
     retryDelay |-> Undefined, timeout |-> Undefined]

\* The messages of validateConfiguration, without the provider's name.
ApiKeyRequired == "API key required"
TargetLanguageRequired == "Target language required"
PotFileRequired == "POT file required"
ModelNameEmpty == "Model name cannot be empty"

\* options.apiKey, then the provider's two variables, then the two generic
\* ones, each read from process.env.
hasApiKey(options, DEFAULTS, processEnv) ==
    LET provider == JsOr(options.provider, DEFAULTS.PROVIDER)
        providerUpper == toUpperCase(stringOf(provider.s))
    IN  \/ Truthy(options.apiKey)
        \/ Truthy(getenv(processEnv, "POTOMATIC_" \o providerUpper \o "_API_KEY"))
        \/ Truthy(getenv(processEnv, providerUpper \o "_API_KEY"))
        \/ Truthy(getenv(processEnv, "POTOMATIC_API_KEY"))
        \/ Truthy(getenv(processEnv, "API_KEY"))

\* The errors array of validateConfiguration: each test pushes its message.
collectErrors(options, DEFAULTS, processEnv) ==
    (IF ~options.dryRun /\ ~hasApiKey(options, DEFAULTS, processEnv)
     THEN <<ApiKeyRequired>> ELSE <<>>)
    \o (IF ~Truthy(options.targetLanguages)
           \/ Len(options.targetLanguages.s) = 0
        THEN <<TargetLanguageRequired>> ELSE <<>>)
    \o (IF ~Truthy(options.potFilePath) THEN <<PotFileRequired>> ELSE <<>>)
    \o (IF Truthy(options.model) /\ Len(trim(options.model.s)) = 0
        THEN <<ModelNameEmpty>> ELSE <<>>)

\* Validation returns at the first failed requirement.
validateFirstErrorOnly(options, DEFAULTS, processEnv) ==
    LET errors == collectErrors(options, DEFAULTS, processEnv)
    IN  [isValid |-> Len(errors) = 0,
         errors |-> IF errors = <<>> THEN <<>> ELSE <<Head(errors)>>]

validateConfiguration(options, DEFAULTS, processEnv) ==
    LET errors == collectErrors(options, DEFAULTS, processEnv)
    IN  [isValid |-> Len(errors) = 0, errors |-> errors]

\* DEFAULTS.TARGET_LANGUAGES && DEFAULTS.POT_FILE_PATH
hasEnvDefaults(DEFAULTS) ==
    Truthy(DEFAULTS.TARGET_LANGUAGES) /\ Truthy(DEFAULTS.POT_FILE_PATH)

\* The options parseCliArguments validates before it prints the help.
tempOptions(DEFAULTS, processEnv) ==
    LET ENV_CONFIG == parseEnvironmentConfig(processEnv)
        provider == ENV_CONFIG.PROVIDER
        providerUpper == toUpperCase(stringOf(provider.s))
        potomacProviderKey ==
            getenv(ENV_CONFIG, "POTOMATIC_" \o providerUpper \o "_API_KEY")
        standardProviderKey == getenv(ENV_CONFIG, providerUpper \o "_API_KEY")
    IN  [NoOptions EXCEPT
            !.provider = provider,
            !.apiKey = JsOr(JsOr(JsOr(potomacProviderKey, standardProviderKey),
                                 ENV_CONFIG.POTOMATIC_API_KEY),
                            ENV_CONFIG.API_KEY),
            !.targetLanguages = Arr(defaultLanguages(DEFAULTS)),
            !.potFilePath = DEFAULTS.POT_FILE_PATH,
            !.dryRun = FALSE]


(***************************************************************************)
(* The language-job scheduler and the budget guard.  A job is a record:    *)
(* its status, the entries not yet dispatched, the size of the batch in    *)
(* flight (0 when none), the attempts made for it, the entries translated, *)
(* the batches that failed for good, and whether the job was abandoned;    *)
(* the number of its current batch and that batch's state: "Dispatched",   *)
(* then "Succeeded", "SucceededWithIssues" (the decoded reply had          *)
(* validation issues) or "FailedFinal"; and the number of its remote calls  *)
(* in flight.  The catalog of a language holds the entries 1..NumEntries   *)
(* in catalog order; a job also carries the entries that already have a    *)
(* translation in the existing catalog, its batches, and the entries whose *)
(* existing translation the merged output keeps.  The state of the current *)
(* batch is "none" again once the job has ended.  The cost of a batch is   *)
(* one unit per entry.                                                     *)
(***************************************************************************)
Languages == 1..NumLanguages

Entries == 1..NumEntries

TerminalStatuses == {"succeeded", "partiallyFailed", "failed", "skipped"}

PendingJob ==
    [status |-> "pending", remaining |-> 0, inflight |-> 0, attempts |-> 0,
     translated |-> 0, failedBatches |-> 0, abandoned |-> FALSE,
     batchNo |-> 0, batchState |-> "none", calls |-> 0,
     existing |-> {}, chunks |-> <<>>, kept |-> {}]

\* A job not started yet, for a language whose existing catalog has
\* translations for the entries of translated.
jobFor(translated) ==
    [PendingJob EXCEPT !.existing = translated, !.kept = translated]

\* The entries of the catalog a job has to translate, in catalog order.
toTranslate(translated, forceTranslate) ==
    SelectSeq([e \in Entries |-> e],
              LAMBDA e : forceTranslate \/ e \notin translated)

\* The entries cut into batches of size entries, the last one shorter.
RECURSIVE chunk(_, _)
chunk(entries, size) ==
    IF entries = <<>> THEN <<>>
    ELSE IF Len(entries) <= size THEN <<entries>>
    ELSE <<SubSeq(entries, 1, size)>>
         \o chunk(SubSeq(entries, size + 1, Len(entries)), size)

NewRun ==
    [totalStrings |-> 0, totalCost |-> 0, aborted |-> FALSE,
     exitCode |-> Undefined]

Running(js) == {l \in Languages : js[l].status = "running"}
Pending(js) == {l \in Languages : js[l].status = "pending"}

\* The pending language that comes first in the configured order.
nextPending(js) == CHOOSE p \in Pending(js) : \A q \in Pending(js) : p <= q

\* The size of the worker pool: 1 when maxStringsTotal is set.
effectiveConcurrency(cfg) ==
    IF IsNum(cfg.maxStringsTotal) THEN 1 ELSE cfg.concurrentJobs.n

\* The entries a job starting now may dispatch: what is left of the run-wide
\* cap when maxStringsTotal is set, else maxStrings when it is set.
jobLimit(cfg, r) ==
    IF IsNum(cfg.maxStringsTotal)
    THEN (IF cfg.maxStringsTotal.n > r.totalStrings
          THEN cfg.maxStringsTotal.n - r.totalStrings ELSE 0)
    ELSE IF IsNum(cfg.maxStrings) THEN cfg.maxStrings.n
    ELSE NumEntries

startJob(job, cfg, r) ==
    LET todo == toTranslate(job.existing, cfg.forceTranslate)
        limited == SubSeq(todo, 1, Min(Len(todo), jobLimit(cfg, r)))
    IN  [job EXCEPT !.status = "running",
                    !.remaining = Len(limited),
                    !.chunks = chunk(limited, cfg.batchSize.n)]

\* The guard never looks at the cost.
mayDispatchNoCost(cfg, r) ==
    /\ ~r.aborted
    /\ IsNum(cfg.maxStringsTotal) => r.totalStrings < cfg.maxStringsTotal.n

\* The budget guard, consulted before every dispatch.
mayDispatch(cfg, r) ==
    /\ ~r.aborted
    /\ IsNum(cfg.maxStringsTotal) => r.totalStrings < cfg.maxStringsTotal.n
    /\ IsNum(cfg.maxCost) => r.totalCost < cfg.maxCost.n

\* The next batch is sent without waiting for the one in flight.
mayStartBatchSpeculative(job) == job.remaining > 0 /\ ~job.abandoned

\* A job sends its next batch once the previous one is resolved.
mayStartBatch(job) == job.inflight = 0 /\ job.remaining > 0 /\ ~job.abandoned

\* One more attempt than maxRetries + 1 is allowed.
shouldRetryOnceMore(job, cfg) == job.attempts <= cfg.maxRetries.n + 1

\* A failed call is retried while fewer than maxRetries + 1 attempts were made.
shouldRetry(job, cfg) == job.attempts <= cfg.maxRetries.n

finalStatus(job) ==
    IF job.abandoned THEN "skipped"
    ELSE IF job.failedBatches = 0 THEN "succeeded"
    ELSE IF job.translated = 0 THEN "failed"
    ELSE "partiallyFailed"

\* The exit codes: success, full failure, and partial success, which is
\* non-zero and differs from full failure.
ExitSuccess == 0
ExitFailure == 1
ExitPartial == 2

\* The codes processAllLanguages resolves to.
ExitCodes == {ExitSuccess, ExitFailure, ExitPartial}

\* An aborted run never ends in full failure.
exitStatusIgnoringAbort(js, r) ==
    IF \A l \in Languages : js[l].status = "failed" THEN ExitFailure
    ELSE IF \A l \in Languages : js[l].status = "succeeded" THEN ExitSuccess
    ELSE ExitPartial

\* The exit status aggregates the jobs' terminal statuses.
exitStatus(js, r) ==
    IF r.aborted \/ \A l \in Languages : js[l].status = "failed" THEN ExitFailure
    ELSE IF \A l \in Languages : js[l].status = "succeeded" THEN ExitSuccess
    ELSE ExitPartial


(***************************************************************************)
(* Initial values of the variable groups an operation does not use.        *)
(***************************************************************************)
NoValidation == [correctedForms |-> <<>>, hasIssues |-> FALSE]

EntityIdle == text = <<>> /\ escaped = <<>> /\ decoded = <<>>
PluralIdle == forms = <<>> /\ expectedCount = 0 /\ validated = NoValidation

NotParsed == [translations |-> <<>>, validationStats |-> createEmptyValidationStats]

NoPrompt == buildXmlPrompt(<<>>, 0, <<>>)

NoArguments ==
    [batchSize |-> Absent, jobs |-> Absent, maxStringsPerJob |-> Absent,
     maxTotalStrings |-> Absent, maxCost |-> Absent, maxRetries |-> Absent,
     abortOnFailure |-> FALSE, skipLanguageOnFailure |-> FALSE,
     forceTranslate |-> FALSE,
     targetLanguages |-> Absent, potFilePath |-> Absent, provider |-> Absent,
     apiKey |-> Absent, model |-> Absent, temperature |-> Absent,
     verboseLevel |-> Absent, dryRun |-> FALSE,
     retryDelay |-> Absent, timeout |-> Absent]

\* The defaults of envSchema, with BATCH_SIZE scaled down to 2 and
\* MAX_RETRIES to 1.
EnvDefaults ==
    [BATCH_SIZE |-> Num(2), CONCURRENT_JOBS |-> Num(2),
     MAX_STRINGS_PER_JOB |-> Undefined, MAX_TOTAL_STRINGS |-> Undefined,
     MAX_COST |-> Undefined, MAX_RETRIES |-> Num(1),
     ABORT_ON_FAILURE |-> FALSE, SKIP_LANGUAGE_ON_FAILURE |-> FALSE,
     FORCE_TRANSLATE |-> FALSE,
     PROVIDER |-> Str(<<"openai">>), MODEL |-> Str(<<"gpt-4o-mini">>),
     VERBOSE_LEVEL |-> Num(1), TEMPERATURE |-> SevenTenths,
     DRY_RUN |-> FALSE, TARGET_LANGUAGES |-> Undefined,
     POT_FILE_PATH |-> Undefined,
     RETRY_DELAY |-> Num(2000), TIMEOUT |-> Num(60)]

\* The variables the model sets in process.env; every other one is unset.
EnvNames ==
    {"PROVIDER", "OPENAI_API_KEY", "GEMINI_API_KEY", "ANTHROPIC_API_KEY",
     "POTOMATIC_GEMINI_API_KEY", "POTOMATIC_API_KEY", "API_KEY",
     "MAX_RETRIES", "TEMPERATURE", "VERBOSE_LEVEL",
     "BATCH_SIZE", "CONCURRENT_JOBS", "RETRY_DELAY", "TIMEOUT"}

EmptyEnv == [name \in EnvNames |-> Undefined]

RunIdle ==
    /\ args = NoArguments
    /\ defaults = EnvDefaults
    /\ config = createConfiguration(parseCliArguments(NoArguments, EnvDefaults),
                                    EnvDefaults,
                                    parseEnvironmentConfig(EmptyEnv))
    /\ jobs = [l \in Languages |-> PendingJob]
    /\ run = NewRun

NotValidated == [isValid |-> FALSE, errors |-> <<>>]

NotParsedYet == [success |-> FALSE, data |-> FALSE]

SchemaIdle ==
    /\ schemaDefault = FALSE
    /\ schemaInput = Undefined
    /\ schemaOutput = NotParsedYet

\* No process.exit call has run, no code was returned.
NotExited == -1

MainIdle ==
    /\ orchestrator = "none"
    /\ returned = NotExited
    /\ thrown = FALSE
    /\ exitedFrom = "none"
    /\ processExit = NotExited

SetupIdle ==
    /\ env = EmptyEnv
    /\ opts = parseCliArguments(NoArguments, EnvDefaults)
    /\ validation = NotValidated

CodecIdle ==
    /\ batch = <<>>
    /\ pluralCount = 0
    /\ dictionaryCount = 0
    /\ xmlResponse = <<>>
    /\ parsed = NotParsed
    /\ dictionaryMatches = <<>>
    /\ prompt = NoPrompt
    /\ synthetic = <<>>
    /\ dictionaryResponse = <<>>

(***************************************************************************)
(* SpecEntities: a text is escaped for the request and decoded again, or   *)
(* arrives in a reply and is decoded directly.                             *)
(***************************************************************************)
InitEntities ==
    /\ pc = "text"
    /\ text \in SeqsUpTo(Alphabet, MaxTextLen)
    /\ escaped = <<>>
    /\ decoded = <<>>
    /\ PluralIdle
    /\ CodecIdle
    /\ RunIdle
    /\ SetupIdle
    /\ SchemaIdle
    /\ MainIdle

Escape ==
    /\ pc = "text"
    /\ escaped' = escapeXmlAttribute(text)
    /\ pc' = "escaped"
    /\ UNCHANGED <<text, decoded, pluralVars, codecVars, runVars, setupVars, schemaVars, mainVars>>

Decode ==
    /\ pc = "escaped"
    /\ decoded' = decodeXmlEntities(escaped)
    /\ pc' = "decoded"
    /\ UNCHANGED <<text, escaped, pluralVars, codecVars, runVars, setupVars, schemaVars, mainVars>>

DecodeReplyText ==
    /\ pc = "text"
    /\ decoded' = decodeXmlEntities(text)
    /\ pc' = "decodedReply"
    /\ UNCHANGED <<text, escaped, pluralVars, codecVars, runVars, setupVars, schemaVars, mainVars>>

NextEntities == Escape \/ Decode \/ DecodeReplyText

SpecEntities == InitEntities /\ [][NextEntities]_vars

(***************************************************************************)
(* SpecPlural: validatePluralForms applied to an array of forms.           *)
(***************************************************************************)
FormTexts == {<<>>, <<" ">>, <<"a">>, <<"b">>}

InitPlural ==
    /\ pc = "forms"
    /\ forms \in SeqsUpTo(FormTexts, MaxFormsLen)
    /\ expectedCount \in 1..MaxExpected
    /\ validated = NoValidation
    /\ EntityIdle
    /\ CodecIdle
    /\ RunIdle
    /\ SetupIdle
    /\ SchemaIdle
    /\ MainIdle

Validate ==
    /\ pc = "forms"
    /\ validated' = validatePluralForms(forms, expectedCount)
    /\ pc' = "validated"
    /\ UNCHANGED <<forms, expectedCount, entityVars, codecVars, runVars, setupVars, schemaVars, mainVars>>

NextPlural == Validate

SpecPlural == InitPlural /\ [][NextPlural]_vars

(***************************************************************************)
(* Claims about the plural policy.                                         *)
(***************************************************************************)

\* C4: validatePluralForms returns exactly expectedCount forms: the first
\* min(len(forms), expectedCount) input forms unchanged and in order, then
\* empty strings when the input was shorter; hasIssues is true whenever the
\* input length differs from expectedCount.
PadTruncate ==
    pc = "validated" =>
        LET cf == validated.correctedForms
            kept == Min(Len(forms), expectedCount)
        IN  /\ Len(cf) = expectedCount
            /\ \A i \in 1..kept : cf[i] = forms[i]
            /\ \A i \in (kept + 1)..expectedCount : cf[i] = <<>>
            /\ (Len(forms) # expectedCount => validated.hasIssues)

\* expectedCount = 3 with two forms given: the third form is padded.
PadTruncateWitness ==
    /\ pc = "validated"
    /\ expectedCount = 3
    /\ forms = << <<"a">>, <<"b">> >>
    /\ validated.correctedForms = << <<"a">>, <<"b">>, <<>> >>
    /\ validated.hasIssues

\* The positions of fs holding a form with a character that is no blank.
InkedForms(fs) ==
    {i \in 1..Len(fs) : \E p \in 1..Len(fs[i]) : fs[i][p] # " "}

\* C24: hasIssues is true exactly when the input length differs from
\* expectedCount or, after correction, at least one but not all of the
\* expectedCount forms are non-blank; an input of the right length is
\* returned as it is, and when all its forms are blank it is no issue.
IssuesExactly ==
    pc = "validated" =>
        LET inked == Cardinality(InkedForms(validated.correctedForms))
        IN  /\ validated.hasIssues <=>
                   \/ Len(forms) # expectedCount
                   \/ (inked >= 1 /\ inked < expectedCount)
            /\ Len(forms) = expectedCount => validated.correctedForms = forms
            /\ (Len(forms) = expectedCount /\ InkedForms(forms) = {})
                   => ~validated.hasIssues

\* Three forms expected and given, the second one blank: the forms come
\* back as they were, with the issue flagged.
IssuesExactlyWitness ==
    /\ pc = "validated"
    /\ expectedCount = 3
    /\ forms = << <<"a">>, <<" ">>, <<"b">> >>
    /\ validated.correctedForms = forms
    /\ validated.hasIssues

(***************************************************************************)
(* Claims about entity escaping.                                           *)
(***************************************************************************)

\* C6: decodeXmlEntities inverts escapeXmlAttribute on every text, and it
\* decodes one level only: a text whose ampersand was itself escaped
\* (&amp;lt;) decodes to the entity text (&lt;), not to the character (<).
EntityRoundTrip ==
    /\ pc = "decoded" => decoded = text
    /\ \A n \in EntityNames :
          (pc = "decodedReply" /\ text = <<"&", "amp;", n>>)
              => decoded = <<"&", n>>

\* The text &lt; is escaped to &amp;lt; and decoded back to &lt;.
EntityRoundTripWitness ==
    /\ pc = "decoded"
    /\ text = <<"&", "lt;">>
    /\ escaped = <<"&", "amp;", "lt;">>
    /\ decoded = <<"&", "lt;">>

(***************************************************************************)
(* SpecParse: parseXmlResponse applied to a reply of the remote model.     *)
(* The reply is empty, one segment, or two segments in either order; a     *)
(* segment is a block with or without sub-form tags, for any index from    *)
(* none to one past the batch, or stray text.                              *)
(***************************************************************************)
MsgId(k) == << "m" \o ToString(k) >>

Batches ==
    UNION {{[k \in 1..n |-> [msgid |-> MsgId(k), msgid_plural |-> fl[k]]] :
               fl \in [1..n -> BOOLEAN]} : n \in 1..MaxBatch}

Tag(idx) == IF idx = NoIndex THEN NoIndexTag ELSE OpenTag(idx)

FormElement(i, v) == <<FormOpen(i)>> \o v \o <<FormClose(i)>>

RECURSIVE AllForms(_, _)
AllForms(i, count) ==
    IF i >= count THEN <<>>
    ELSE FormElement(i, <<"a">>) \o AllForms(i + 1, count)

FormBodies(count) ==
    { AllForms(0, count),
      FormElement(0, <<"a">>),
      FormElement(0, <<>>),
      FormElement(1, <<"a">>),
      <<FormOpen(0), "a">> }

PlainBodies == { <<"a">>, <<"&", "lt;">> }

Segments(dictCount, size, count) ==
    LET indices == {NoIndex} \cup 1..(dictCount + size + 1)
    IN  {<<Tag(i)>> \o b \o <<CloseTag>> :
            i \in indices, b \in PlainBodies \cup FormBodies(count)}
        \cup { <<" ">>, <<"x">>, <<OpenTag(dictCount + 1)>> }

Replies(dictCount, size, count) ==
    LET segs == Segments(dictCount, size, count)
    IN  {<<>>} \cup segs \cup {s1 \o s2 : s1 \in segs, s2 \in segs}

InitParse ==
    /\ pc = "reply"
    /\ batch \in Batches
    /\ pluralCount \in 1..MaxPlural
    /\ dictionaryCount \in 0..MaxDict
    /\ xmlResponse \in Replies(dictionaryCount, Len(batch), pluralCount)
    /\ parsed = NotParsed
    /\ dictionaryMatches = <<>>
    /\ prompt = NoPrompt
    /\ synthetic = <<>>
    /\ dictionaryResponse = <<>>
    /\ EntityIdle
    /\ PluralIdle
    /\ RunIdle
    /\ SetupIdle
    /\ SchemaIdle
    /\ MainIdle

Parse ==
    /\ pc = "reply"
    /\ parsed' = parseXmlResponse(xmlResponse, batch, pluralCount, dictionaryCount)
    /\ pc' = "parsed"
    /\ UNCHANGED <<batch, pluralCount, dictionaryCount, xmlResponse,
                   dictionaryMatches, prompt, synthetic, dictionaryResponse,
                   entityVars, pluralVars, runVars, setupVars, schemaVars, mainVars>>

NextParse == Parse

SpecParse == InitParse /\ [][NextParse]_vars

(***************************************************************************)
(* Claims about reply parsing.                                             *)
(***************************************************************************)
Max(S) == CHOOSE m \in S : \A x \in S : x <= m

\* The positions, among the reply's blocks, of the blocks carrying index idx.
BlocksWithIndex(idx) ==
    LET blocks == translationBlocks(xmlResponse, 1)
    IN  {p \in 1..Len(blocks) : responseIndexOf(blocks[p]) = idx}

\* The last block of the reply carrying index idx.
LastBlockWithIndex(idx) ==
    translationBlocks(xmlResponse, 1)[Max(BlocksWithIndex(idx))]

\* The translation a block carries for an entry: its sub-forms when it has
\* sub-form tags, its decoded text otherwise (padded for a plural entry).
TranslationOf(block, entry) ==
    IF hasFormTags(block)
    THEN validatePluralForms(blockForms(block, pluralCount), pluralCount).correctedForms
    ELSE IF entry.msgid_plural
    THEN validatePluralForms(<<decodeXmlEntities(blockContent(block))>>,
                             pluralCount).correctedForms
    ELSE <<decodeXmlEntities(blockContent(block))>>

\* C1: with dictionaryCount D and a batch of B entries, the blocks with an
\* index in 1..D are discarded and batch position k-1 (k in 1..B) holds the
\* translation of the block with index D+k (the last one when the reply
\* repeats the index); a position without a block keeps its all-empty default.
DictionaryOffset ==
    pc = "parsed" =>
        /\ Len(parsed.translations) = Len(batch)
        /\ \A k \in 1..Len(batch) :
              parsed.translations[k].msgstr =
                  IF BlocksWithIndex(dictionaryCount + k) = {}
                  THEN emptyForms(pluralCount)
                  ELSE TranslationOf(LastBlockWithIndex(dictionaryCount + k), batch[k])

\* One dictionary example, two entries; the reply echoes the example (index 1)
\* and answers the second entry (index 3) only.
DictionaryOffsetWitness ==
    /\ pc = "parsed"
    /\ dictionaryCount = 1
    /\ Len(batch) = 2
    /\ ~batch[2].msgid_plural
    /\ xmlResponse = <<OpenTag(1), "a", CloseTag, OpenTag(3), "&", "lt;", CloseTag>>
    /\ parsed.translations[1].msgstr = emptyForms(pluralCount)
    /\ parsed.translations[2].msgstr = << <<"<">> >>

\* C2 as stated: every returned entry has exactly pluralCount forms, plural
\* and non-plural entries alike.
MsgstrLengthIsPluralCount ==
    pc = "parsed" =>
        \A k \in 1..Len(parsed.translations) :
            Len(parsed.translations[k].msgstr) = pluralCount

\* C2 amended: every returned entry has exactly pluralCount forms, except a
\* non-plural entry whose last block has no sub-form tags: it has one form.
MsgstrLength ==
    pc = "parsed" =>
        /\ Len(parsed.translations) = Len(batch)
        /\ \A k \in 1..Len(batch) :
              Len(parsed.translations[k].msgstr) =
                  IF /\ ~batch[k].msgid_plural
                     /\ BlocksWithIndex(dictionaryCount + k) # {}
                     /\ ~hasFormTags(LastBlockWithIndex(dictionaryCount + k))
                  THEN 1
                  ELSE pluralCount

\* Two plural forms required: the plural entry answered by a plain block is
\* padded to two forms, the non-plural entry answered the same way has one.
MsgstrLengthWitness ==
    /\ pc = "parsed"
    /\ pluralCount = 2
    /\ dictionaryCount = 0
    /\ Len(batch) = 2
    /\ batch[1].msgid_plural
    /\ ~batch[2].msgid_plural
    /\ xmlResponse = <<OpenTag(1), "a", CloseTag, OpenTag(2), "a", CloseTag>>
    /\ parsed.translations[1].msgstr = << <<"a">>, <<>> >>
    /\ parsed.translations[2].msgstr = << <<"a">> >>

\* A reply with no opening tag that is followed by a closing tag.
NoTaggedBlock(xml) ==
    ~\E i \in 1..Len(xml) : \E j \in (i + 1)..Len(xml) :
        xml[i] \in OpenTags /\ xml[j] = CloseTag

\* C3: for a reply that is empty, whitespace-only or without any tagged
\* block, parseXmlResponse returns one result per batch entry, in batch
\* order, with the entry's msgid and pluralCount empty strings, and every
\* validation counter is 0.
MalformedReplyGivesEmptyForms ==
    (pc = "parsed" /\ NoTaggedBlock(xmlResponse)) =>
        /\ Len(parsed.translations) = Len(batch)
        /\ \A k \in 1..Len(batch) :
              /\ parsed.translations[k].msgid = batch[k].msgid
              /\ parsed.translations[k].msgstr = [i \in 1..pluralCount |-> <<>>]
        /\ parsed.validationStats.stringsWithPluralIssues = 0

\* An opening tag that is never closed, followed by stray text.
MalformedReplyWitness ==
    /\ pc = "parsed"
    /\ xmlResponse = <<OpenTag(1), "x">>
    /\ Len(batch) = 2
    /\ pluralCount = 2
    /\ parsed.translations[1].msgstr = << <<>>, <<>> >>
    /\ parsed.translations[2].msgid = MsgId(2)

\* Entry k is answered by exactly one block of the reply.
AnsweredOnce(k) == Cardinality(BlocksWithIndex(dictionaryCount + k)) = 1

\* The block carries the tag pair of form i.
FormPresent(block, i) == formMatch(block, i).matched

\* The block carries a sub-form tag pair, and lacks the one of some form
\* below pluralCount.
SomeFormMissing(block) ==
    /\ \E i \in 0..(pluralCount - 1) : FormPresent(block, i)
    /\ \E i \in 0..(pluralCount - 1) : ~FormPresent(block, i)

\* The entries answered once, by a block with a missing form.
EntriesWithMissingForm ==
    {k \in 1..Len(batch) :
        AnsweredOnce(k)
        /\ SomeFormMissing(LastBlockWithIndex(dictionaryCount + k))}

\* C22: when the block of an entry carries sub-form tags but lacks the tag
\* of some form below pluralCount, that form is stored empty and the entry
\* is counted in stringsWithPluralIssues, whatever forms are present and
\* whatever they hold.
MissingFormCounted ==
    pc = "parsed" =>
        /\ \A k \in EntriesWithMissingForm :
              /\ Len(parsed.translations[k].msgstr) = pluralCount
              /\ \A i \in 0..(pluralCount - 1) :
                    ~FormPresent(LastBlockWithIndex(dictionaryCount + k), i)
                        => parsed.translations[k].msgstr[i + 1] = <<>>
        /\ parsed.validationStats.stringsWithPluralIssues
               >= Cardinality(EntriesWithMissingForm)

\* Two forms are required; the only block holds an empty first form and no
\* second form: both forms are stored empty and nothing is counted.
MissingFormNotCounted ==
    /\ pc = "parsed"
    /\ pluralCount = 2
    /\ dictionaryCount = 0
    /\ batch[1].msgid_plural
    /\ xmlResponse = <<OpenTag(1), FormOpen(0), FormClose(0), CloseTag>>
    /\ 1 \in EntriesWithMissingForm
    /\ parsed.translations[1].msgstr = << <<>>, <<>> >>
    /\ parsed.validationStats.stringsWithPluralIssues = 0

\* The tokens of the sub-form tags.
FormTags == UNION {{FormOpen(i), FormClose(i)} : i \in 0..MaxPlural}

\* The plural entries answered once, by a block without any sub-form tag.
PluralEntriesAnsweredPlainly ==
    {k \in 1..Len(batch) :
        /\ batch[k].msgid_plural
        /\ AnsweredOnce(k)
        /\ LET block == LastBlockWithIndex(dictionaryCount + k)
           IN  \A p \in 1..Len(block) : block[p] \notin FormTags}

\* C23: when the block of an entry with a plural source carries no sub-form
\* tags, its decoded text is stored as form 0, the remaining forms are
\* empty, and the entry is counted in stringsWithPluralIssues, for every
\* pluralCount from 1 up; the parse returns its result.
PlainBlockForPluralCounted ==
    pc = "parsed" =>
        /\ \A k \in PluralEntriesAnsweredPlainly :
              parsed.translations[k].msgstr =
                  [i \in 1..pluralCount |->
                      IF i = 1
                      THEN decodeXmlEntities(blockContent(
                               LastBlockWithIndex(dictionaryCount + k)))
                      ELSE <<>>]
        /\ parsed.validationStats.stringsWithPluralIssues
               >= Cardinality(PluralEntriesAnsweredPlainly)

\* One form is required; the plural entry is answered by a plain block: the
\* text is stored as the only form and nothing is counted.
PlainBlockNotCounted ==
    /\ pc = "parsed"
    /\ pluralCount = 1
    /\ dictionaryCount = 0
    /\ batch[1].msgid_plural
    /\ xmlResponse = <<OpenTag(1), "a", CloseTag>>
    /\ 1 \in PluralEntriesAnsweredPlainly
    /\ parsed.translations[1].msgstr = << <<"a">> >>
    /\ parsed.validationStats.stringsWithPluralIssues = 0

\* The validation of the forms a block carries for an entry; none for a
\* non-plural entry answered by a plain block.
FlaggedBy(block, entry) ==
    IF hasFormTags(block)
    THEN validatePluralForms(blockForms(block, pluralCount), pluralCount).hasIssues
    ELSE /\ entry.msgid_plural
         /\ validatePluralForms(<<decodeXmlEntities(blockContent(block))>>,
                                pluralCount).hasIssues

\* The entries whose stored forms, those of the last block carrying the
\* entry's index, were flagged.
FlaggedEntries ==
    {k \in 1..Len(batch) :
        /\ BlocksWithIndex(dictionaryCount + k) # {}
        /\ FlaggedBy(LastBlockWithIndex(dictionaryCount + k), batch[k])}

\* C28: for any reply, also one repeating an index in several blocks,
\* stringsWithPluralIssues is the number of batch entries whose final
\* stored forms were flagged, and so never exceeds the size of the batch.
IssuesCountStrings ==
    pc = "parsed" =>
        /\ parsed.validationStats.stringsWithPluralIssues
               = Cardinality(FlaggedEntries)
        /\ parsed.validationStats.stringsWithPluralIssues <= Len(batch)

\* A batch of one plural entry, two forms required; the reply answers index 1
\* twice with the first form only: one string, two issues counted.
IssuesCountedPerBlock ==
    /\ pc = "parsed"
    /\ Len(batch) = 1
    /\ pluralCount = 2
    /\ dictionaryCount = 0
    /\ xmlResponse = <<OpenTag(1), FormOpen(0), "a", FormClose(0), CloseTag,
                       OpenTag(1), FormOpen(0), "a", FormClose(0), CloseTag>>
    /\ FlaggedEntries = {1}
    /\ parsed.validationStats.stringsWithPluralIssues = 2

(***************************************************************************)
(* SpecRoundTrip: a batch is encoded with buildXmlPrompt, the remote model *)
(* answers every source tag of the batch with one single-form block that   *)
(* carries the tag's index and an XML-escaped value, in any order, and the *)
(* reply is decoded with the dictionaryCount the encoder reported.         *)
(***************************************************************************)
DictionaryPairs ==
    { [source |-> <<"s">>, target |-> <<"t">>],
      [source |-> <<"&">>, target |-> <<"<">>] }

SyntheticValues == { <<>>, <<"a">>, <<"<">>, <<"&", "lt;">> }

Orders(n) ==
    {f \in [1..n -> 1..n] : \A a, b \in 1..n : f[a] = f[b] => a = b}

\* The blocks of a reply answering sources[order[1]], sources[order[2]], ...
RECURSIVE SingleFormBlocks(_, _, _, _)
SingleFormBlocks(sources, values, order, j) ==
    IF j > Len(order) THEN <<>>
    ELSE <<OpenTag(sources[order[j]].i)>>
         \o escapeXmlAttribute(values[order[j]])
         \o <<CloseTag>>
         \o SingleFormBlocks(sources, values, order, j + 1)

InitRoundTrip ==
    /\ pc = "batch"
    /\ batch \in Batches
    /\ pluralCount \in 1..MaxPlural
    /\ dictionaryMatches \in SeqsUpTo(DictionaryPairs, MaxDict)
    /\ dictionaryCount = 0
    /\ xmlResponse = <<>>
    /\ parsed = NotParsed
    /\ prompt = NoPrompt
    /\ synthetic = <<>>
    /\ dictionaryResponse = <<>>
    /\ EntityIdle
    /\ PluralIdle
    /\ RunIdle
    /\ SetupIdle
    /\ SchemaIdle
    /\ MainIdle

BuildPrompt ==
    /\ pc = "batch"
    /\ prompt' = buildXmlPrompt(batch, pluralCount, dictionaryMatches)
    /\ dictionaryCount' = prompt'.dictionaryCount
    /\ pc' = "prompt"
    /\ dictionaryResponse' = buildDictionaryResponse(dictionaryMatches)
    /\ UNCHANGED <<batch, pluralCount, xmlResponse, parsed, dictionaryMatches,
                   synthetic, entityVars, pluralVars, runVars, setupVars, schemaVars, mainVars>>

SyntheticReply ==
    /\ pc = "prompt"
    /\ \E values \in [1..Len(batch) -> SyntheticValues] :
       \E order \in Orders(Len(batch)) :
          /\ synthetic' = values
          /\ xmlResponse' = SingleFormBlocks(prompt.xmlPrompt.sources, values, order, 1)
    /\ pc' = "reply"
    /\ UNCHANGED <<batch, pluralCount, dictionaryCount, parsed, dictionaryMatches,
                   prompt, dictionaryResponse, entityVars, pluralVars, runVars, setupVars, schemaVars, mainVars>>

NextRoundTrip == BuildPrompt \/ SyntheticReply \/ Parse

SpecRoundTrip == InitRoundTrip /\ [][NextRoundTrip]_vars

(***************************************************************************)
(* Claims about the round trip.                                            *)
(***************************************************************************)

\* C5: a batch of N non-plural entries encoded with D dictionary examples,
\* answered by exactly N single-form blocks carrying the encoder's indices,
\* decodes to N results in batch order whose single form is the value of the
\* block with that entry's index, whatever the order of the blocks.
RoundTrip ==
    (pc = "parsed" /\ \A k \in 1..Len(batch) : ~batch[k].msgid_plural) =>
        /\ Len(parsed.translations) = Len(batch)
        /\ \A k \in 1..Len(batch) :
              /\ parsed.translations[k].msgid = batch[k].msgid
              /\ parsed.translations[k].msgstr = << synthetic[k] >>

\* One dictionary example, two entries answered in reverse order.
RoundTripWitness ==
    /\ pc = "parsed"
    /\ Len(dictionaryMatches) = 1
    /\ Len(batch) = 2
    /\ \A k \in 1..2 : ~batch[k].msgid_plural
    /\ synthetic = << <<"a">>, <<"&", "lt;">> >>
    /\ xmlResponse = <<OpenTag(3), "&", "amp;", "lt;", CloseTag,
                       OpenTag(2), "a", CloseTag>>
    /\ parsed.translations[1].msgstr = << <<"a">> >>
    /\ parsed.translations[2].msgstr = << <<"&", "lt;">> >>

\* C25: buildXmlPrompt gives dictionary example j the index j and batch
\* entry k the index D + k, so the D + B indices are distinct and run from 1
\* to D + B without a gap; it reports dictionaryCount = D and
\* batchStartIndex = D + 1; buildDictionaryResponse labels the target of
\* match j with the index j.
IndexAssignment ==
    pc = "prompt" =>
        LET D == Len(dictionaryMatches)
            B == Len(batch)
            examples == prompt.xmlPrompt.examples
            sources == prompt.xmlPrompt.sources
        IN  /\ Len(examples) = D
            /\ Len(sources) = B
            /\ \A j \in 1..D : examples[j].i = j
            /\ \A k \in 1..B : sources[k].i = D + k
            /\ {examples[j].i : j \in 1..D} \cup {sources[k].i : k \in 1..B}
                   = 1..(D + B)
            /\ Cardinality({examples[j].i : j \in 1..D})
                   + Cardinality({sources[k].i : k \in 1..B}) = D + B
            /\ prompt.dictionaryCount = D
            /\ prompt.metadata.batchStartIndex = D + 1
            /\ Len(dictionaryResponse) = D
            /\ \A j \in 1..D :
                  /\ dictionaryResponse[j].i = j
                  /\ dictionaryResponse[j].body
                         = escapeXmlAttribute(dictionaryMatches[j].target)

\* One dictionary example and a batch of two: indices 1, then 2 and 3.
IndexAssignmentWitness ==
    /\ pc = "prompt"
    /\ Len(dictionaryMatches) = 1
    /\ Len(batch) = 2
    /\ prompt.xmlPrompt.examples[1].i = 1
    /\ prompt.xmlPrompt.sources[1].i = 2
    /\ prompt.xmlPrompt.sources[2].i = 3
    /\ prompt.metadata.batchStartIndex = 2
    /\ dictionaryResponse[1].i = 1

(***************************************************************************)
(* A run: the configuration is built from the command line and the         *)
(* environment, then the scheduler works through the languages.            *)
(***************************************************************************)
RunArguments ==
    \* one or two worker slots, with and without each limit, under each
    \* failure policy
    { [NoArguments EXCEPT !.jobs = j, !.maxStringsPerJob = s,
                          !.maxTotalStrings = t, !.maxCost = c,
                          !.abortOnFailure = f[1],
                          !.skipLanguageOnFailure = f[2]] :
        j \in {Absent, Given(<<"0">>)},
        s \in {Absent, Given(<<"1">>)},
        t \in {Absent, Given(<<"3">>)},
        c \in {Absent, Given(<<"1">>)},
        f \in {<<FALSE, FALSE>>, <<TRUE, FALSE>>, <<FALSE, TRUE>>} }
    \cup
    \* --jobs 11 together with a run-wide cap
    { [NoArguments EXCEPT !.jobs = Given(<<"1", "1">>),
                          !.maxStringsPerJob = s,
                          !.maxTotalStrings = Given(<<"3">>), !.maxCost = c,
                          !.abortOnFailure = f[1],
                          !.skipLanguageOnFailure = f[2]] :
        s \in {Absent, Given(<<"1">>)},
        c \in {Absent, Given(<<"1">>)},
        f \in {<<FALSE, FALSE>>, <<TRUE, FALSE>>, <<FALSE, TRUE>>} }
    \cup
    \* batches of one entry, under each failure policy
    { [NoArguments EXCEPT !.batchSize = Given(<<"1">>),
                          !.abortOnFailure = f[1],
                          !.skipLanguageOnFailure = f[2]] :
        f \in {<<FALSE, FALSE>>, <<TRUE, FALSE>>, <<FALSE, TRUE>>} }

\* The existing catalogs: no translation at all, every entry translated in
\* every language, the first entry translated in every language, every
\* entry translated in the first language only.
NoneTranslated == [l \in Languages |-> {}]

Catalogs ==
    { [l \in Languages |-> Entries],
      [l \in Languages |-> {1}],
      [l \in Languages |-> IF l = 1 THEN Entries ELSE {}] }

\* Runs against an existing catalog, with and without --force-translate and
\* a run-wide cap.
MergeArguments ==
    { [NoArguments EXCEPT !.forceTranslate = f, !.maxTotalStrings = t] :
        f \in BOOLEAN, t \in {Absent, Given(<<"3">>)} }

RunDefaults ==
    { [EnvDefaults EXCEPT !.MAX_RETRIES = r] : r \in {Num(0), Num(1)} }

InitRun ==
    /\ pc = "configured"
    /\ defaults \in RunDefaults
    /\ \E catalog \in {NoneTranslated} \cup Catalogs :
          /\ args \in IF catalog = NoneTranslated THEN RunArguments
                       ELSE MergeArguments
          /\ jobs = [l \in Languages |-> jobFor(catalog[l])]
    /\ config = createConfiguration(parseCliArguments(args, defaults), defaults,
                                    parseEnvironmentConfig(EmptyEnv))
    /\ run = NewRun
    /\ EntityIdle
    /\ PluralIdle
    /\ CodecIdle
    /\ SetupIdle
    /\ SchemaIdle
    /\ MainIdle

\* The first languages of the list take the worker slots.
processAllLanguages ==
    /\ pc = "configured"
    /\ pc' = "running"
    /\ jobs' = [l \in Languages |->
                   IF l <= effectiveConcurrency(config)
                   THEN startJob(jobs[l], config, run) ELSE jobs[l]]
    /\ UNCHANGED <<args, defaults, config, run, entityVars, pluralVars, codecVars, setupVars, schemaVars, mainVars>>

\* A running job sends its next batch; the strings count at dispatch.
Dispatch(l) ==
    /\ pc = "running"
    /\ jobs[l].status = "running"
    /\ mayStartBatch(jobs[l])
    /\ mayDispatch(config, run)
    /\ LET size == Len(jobs[l].chunks[jobs[l].batchNo + 1])
       IN  /\ jobs' = [jobs EXCEPT ![l].inflight = size,
                                   ![l].remaining = @ - size,
                                   ![l].attempts = 1,
                                   ![l].batchNo = @ + 1,
                                   ![l].batchState = "Dispatched",
                                   ![l].calls = @ + 1]
           /\ run' = [run EXCEPT !.totalStrings = @ + size]
    /\ UNCHANGED <<pc, args, defaults, config, entityVars, pluralVars, codecVars, setupVars, schemaVars, mainVars>>

\* The remote call returns: the batch is translated and its cost is charged,
\* whether or not the decoded reply has validation issues.
CallSucceeds(l) ==
    /\ pc = "running"
    /\ jobs[l].inflight > 0
    /\ \E hasIssues \in BOOLEAN :
          jobs' = [jobs EXCEPT ![l].inflight = 0,
                               ![l].calls = @ - 1,
                               ![l].attempts = 0,
                               ![l].translated = @ + jobs[l].inflight,
                               ![l].kept =
                                   @ \ { jobs[l].chunks[jobs[l].batchNo][i] :
                                            i \in 1..jobs[l].inflight },
                               ![l].batchState = IF hasIssues
                                                 THEN "SucceededWithIssues"
                                                 ELSE "Succeeded"]
    /\ run' = [run EXCEPT !.totalCost = @ + jobs[l].inflight]
    /\ UNCHANGED <<pc, args, defaults, config, entityVars, pluralVars, codecVars, setupVars, schemaVars, mainVars>>

\* The remote call fails: the batch is retried up to maxRetries times, then
\* it is FailedFinal and the job's failure policy applies.
CallFails(l) ==
    /\ pc = "running"
    /\ jobs[l].inflight > 0
    /\ IF shouldRetry(jobs[l], config)
       THEN /\ jobs' = [jobs EXCEPT ![l].attempts = @ + 1]
            /\ run' = run
       ELSE LET stop == config.stopOnMaxRetriesFailure
                skip == ~stop /\ config.skipJobOnMaxRetriesFailure
            IN  /\ jobs' = [k \in Languages |->
                             IF k = l
                             THEN [jobs[l] EXCEPT !.inflight = 0,
                                                  !.calls = @ - 1,
                                                  !.attempts = 0,
                                                  !.batchState = "FailedFinal",
                                                  !.failedBatches = @ + 1,
                                                  !.abandoned = skip]
                             ELSE IF stop /\ jobs[k].status = "pending"
                             THEN [jobs[k] EXCEPT !.status = "skipped"]
                             ELSE jobs[k]]
                /\ run' = [run EXCEPT !.aborted = @ \/ stop]
    /\ UNCHANGED <<pc, args, defaults, config, entityVars, pluralVars, codecVars, setupVars, schemaVars, mainVars>>

\* A job with nothing left to send, or not allowed to send, ends; the next
\* pending language takes its slot.
FinishJob(l) ==
    /\ pc = "running"
    /\ jobs[l].status = "running"
    /\ jobs[l].inflight = 0
    /\ jobs[l].remaining = 0 \/ jobs[l].abandoned \/ ~mayDispatch(config, run)
    /\ jobs' = [k \in Languages |->
                   IF k = l THEN [jobs[l] EXCEPT !.status = finalStatus(jobs[l]),
                                                 !.batchState = "none"]
                   ELSE IF Pending(jobs) # {} /\ k = nextPending(jobs)
                   THEN startJob(jobs[k], config, run)
                   ELSE jobs[k]]
    /\ UNCHANGED <<pc, args, defaults, config, run, entityVars, pluralVars, codecVars, setupVars, schemaVars, mainVars>>

\* processAllLanguages returns the exit code and main exits with it.
FinishRun ==
    /\ pc = "running"
    /\ \A l \in Languages : jobs[l].status \in TerminalStatuses
    /\ pc' = "finished"
    /\ run' = [run EXCEPT !.exitCode = Num(exitStatus(jobs, run))]
    /\ UNCHANGED <<args, defaults, config, jobs, entityVars, pluralVars, codecVars, setupVars, schemaVars, mainVars>>

NextRun ==
    \/ processAllLanguages
    \/ \E l \in Languages : Dispatch(l)
    \/ \E l \in Languages : CallSucceeds(l)
    \/ \E l \in Languages : CallFails(l)
    \/ \E l \in Languages : FinishJob(l)
    \/ FinishRun

SpecRun == InitRun /\ [][NextRun]_vars

(***************************************************************************)
(* Claims about the scheduler and the budget guard.                        *)
(***************************************************************************)

\* The run-wide cap the user asked for, on the command line or in the
\* environment; the command-line texts of RunArguments are positive numerals.
TotalCapGiven == args.maxTotalStrings.given \/ IsNum(defaults.MAX_TOTAL_STRINGS)
TotalCap ==
    IF args.maxTotalStrings.given THEN parseInt(args.maxTotalStrings.text).n
    ELSE defaults.MAX_TOTAL_STRINGS.n

\* The entries of the batches in flight.
RECURSIVE InFlight(_, _)
InFlight(js, n) == IF n = 0 THEN 0 ELSE js[n].inflight + InFlight(js, n - 1)

\* C7: at every moment at most concurrentJobs language jobs are running,
\* concurrentJobs being a number in 1..10, and whenever a running job
\* finishes while languages are still pending, a pending language is started
\* in the same step.
ConcurrencyCap ==
    [][ /\ config.concurrentJobs.n \in 1..10
        /\ Cardinality(Running(jobs)) <= config.concurrentJobs.n
        /\ Cardinality(Running(jobs')) <= config.concurrentJobs.n
        /\ \A l \in Languages :
              ( /\ jobs[l].status = "running"
                /\ jobs'[l].status # "running"
                /\ Pending(jobs) # {} ) =>
                  \E p \in Pending(jobs) : jobs'[p].status = "running" ]_vars

\* Two slots, three languages: the first job is over, the third language
\* runs in its slot beside the second.
ConcurrencyCapWitness ==
    /\ pc = "running"
    /\ config.concurrentJobs = Num(2)
    /\ ~IsNum(config.maxStringsTotal)
    /\ jobs[1].status = "succeeded"
    /\ jobs[2].status = "running"
    /\ jobs[3].status = "running"

\* C8: when a run-wide cap on strings is given, at most one language job is
\* running at any moment, whatever --jobs says.
TotalCapIsSequential ==
    TotalCapGiven => Cardinality(Running(jobs)) <= 1

\* --jobs 11 and --max-total-strings 3: the second language runs alone
\* after the first, the third waits.
TotalCapIsSequentialWitness ==
    /\ pc = "running"
    /\ args.jobs = Given(<<"1", "1">>)
    /\ args.maxTotalStrings = Given(<<"3">>)
    /\ config.concurrentJobs = Num(10)
    /\ jobs[1].status \in TerminalStatuses
    /\ Running(jobs) = {2}
    /\ jobs[2].inflight > 0
    /\ Pending(jobs) = {3}

\* C9: with a run-wide cap M given, the entries dispatched over all languages
\* of the run never number more than M.
TotalCapBoundsDispatch ==
    TotalCapGiven => run.totalStrings <= TotalCap

\* M = 3 and two entries per language: the second job was cut to one entry,
\* and its batch brings the count to M.
TotalCapBoundsDispatchWitness ==
    /\ TotalCapGiven
    /\ TotalCap = 3
    /\ jobs[1].translated = 2
    /\ jobs[2].status = "running"
    /\ jobs[2].inflight = 1
    /\ jobs[2].remaining = 0
    /\ run.totalStrings = TotalCap

\* The counters never decrease.
CountersMonotone ==
    /\ run'.totalStrings >= run.totalStrings
    /\ run'.totalCost >= run.totalCost

\* A batch is dispatched only while every ceiling is still above its counter.
DispatchBelowCeilings ==
    run'.totalStrings > run.totalStrings =>
        /\ IsNum(config.maxStringsTotal) => run.totalStrings < config.maxStringsTotal.n
        /\ IsNum(config.maxCost) => run.totalCost < config.maxCost.n

RetryBound ==
    [][ \A l \in Languages :
          /\ jobs'[l].attempts <= config.maxRetries.n + 1
          /\ (jobs[l].attempts >= 1 /\ jobs'[l].attempts = jobs[l].attempts + 1)
                => CallFails(l)
          /\ (jobs[l].batchState = "Dispatched"
              /\ jobs'[l].batchState = "SucceededWithIssues")
                => /\ jobs'[l].inflight = 0
                   /\ jobs'[l].attempts = 0
                   /\ jobs'[l].batchNo = jobs[l].batchNo
          /\ (jobs[l].batchState # "FailedFinal"
              /\ jobs'[l].batchState = "FailedFinal")
                => jobs[l].attempts = config.maxRetries.n + 1
          /\ (jobs[l].batchState = "FailedFinal" /\ jobs'[l].inflight > 0)
                => /\ jobs'[l].batchNo = jobs[l].batchNo + 1
                   /\ jobs'[l].attempts = 1 ]_vars

\* maxRetries is 1: the first batch of a job failed twice and is FailedFinal,
\* its second batch is at its second attempt, while another job's reply
\* came back with validation issues.
RetryBoundWitness ==
    /\ config.maxRetries = Num(1)
    /\ jobs[1].failedBatches = 1
    /\ jobs[1].batchNo = 2
    /\ jobs[1].batchState = "Dispatched"
    /\ jobs[1].attempts = 2
    /\ jobs[2].batchState = "SucceededWithIssues"

\* --abort-on-failure or ABORT_ON_FAILURE asks for the stop policy.
StopRequested == args.abortOnFailure \/ defaults.ABORT_ON_FAILURE

\* C12: under the stop policy, once a batch is FailedFinal no job dispatches
\* a further batch, no language is started, and the run exits with the
\* full-failure status.
StopAbortsRun ==
    [][ (StopRequested /\ \E l \in Languages : jobs[l].failedBatches > 0) =>
          /\ \A l \in Languages : jobs'[l].batchNo = jobs[l].batchNo
          /\ \A l \in Languages :
                jobs[l].status # "running" => jobs'[l].status # "running"
          /\ pc' = "finished" => run'.exitCode = Num(ExitFailure) ]_vars

\* The first language's batch failed for good while the second language was
\* translating; the third language never started and the run exited with
\* the full-failure status.
StopAbortsRunWitness ==
    /\ StopRequested
    /\ pc = "finished"
    /\ jobs[1].failedBatches = 1
    /\ jobs[2].status = "succeeded"
    /\ jobs[2].translated > 0
    /\ jobs[3].status = "skipped"
    /\ jobs[3].batchNo = 0
    /\ run.exitCode = Num(ExitFailure)

\* --skip-language-on-failure or SKIP_LANGUAGE_ON_FAILURE asks for the skip
\* policy.
SkipRequested == args.skipLanguageOnFailure \/ defaults.SKIP_LANGUAGE_ON_FAILURE

\* The entries a job translates when nothing fails and no run-wide ceiling
\* is set.
FullJob ==
    IF IsNum(config.maxStrings) THEN Min(NumEntries, config.maxStrings.n)
    ELSE NumEntries

\* C13: under the skip policy alone, a language with a FailedFinal batch
\* dispatches no further batch, translates nothing more and ends skipped;
\* the run is not aborted, no language without a failure of its own is
\* skipped, such a language ends succeeded, with all its entries translated
\* when no run-wide ceiling is set, and a run with a skipped language and a
\* succeeded one exits with the partial-success status.
SkipIsolatesLanguage ==
    [][ (SkipRequested /\ ~StopRequested) =>
          /\ \A l \in Languages : jobs[l].failedBatches > 0 =>
                /\ jobs'[l].batchNo = jobs[l].batchNo
                /\ jobs'[l].translated = jobs[l].translated
                /\ jobs'[l].status \in {"running", "skipped"}
          /\ ~run'.aborted
          /\ \A l \in Languages :
                jobs'[l].status = "skipped" => jobs'[l].failedBatches > 0
          /\ \A l \in Languages :
                (jobs'[l].status \in TerminalStatuses
                 /\ jobs'[l].failedBatches = 0) =>
                    /\ jobs'[l].status = "succeeded"
                    /\ (~IsNum(config.maxCost) /\ ~IsNum(config.maxStringsTotal))
                          => jobs'[l].translated = FullJob
          /\ ( /\ pc' = "finished"
               /\ \E l \in Languages : jobs'[l].status = "skipped"
               /\ \E l \in Languages : jobs'[l].status = "succeeded" ) =>
                 /\ run'.exitCode = Num(ExitPartial)
                 /\ ExitPartial \notin {ExitSuccess, ExitFailure} ]_vars

\* Batches of one entry: the first language's first batch failed for good
\* and its second entry was never sent; the two other languages translated
\* everything and the run exited with the partial-success status.
SkipIsolatesLanguageWitness ==
    /\ SkipRequested
    /\ pc = "finished"
    /\ config.batchSize = Num(1)
    /\ jobs[1].status = "skipped"
    /\ jobs[1].batchNo = 1
    /\ jobs[1].remaining > 0
    /\ jobs[1].translated = 0
    /\ \A l \in {2, 3} :
          jobs[l].status = "succeeded" /\ jobs[l].translated = NumEntries
    /\ run.exitCode = Num(ExitPartial)

ResolvedStates == {"none", "Succeeded", "SucceededWithIssues", "FailedFinal"}

\* C14: a job never has more than one remote call in flight, and its batch
\* number advances by one, in a step taken when the job has no call in
\* flight and its previous batch, if any, is resolved.
BatchesSequential ==
    [][ \A l \in Languages :
          /\ jobs'[l].calls <= 1
          /\ jobs'[l].batchNo \in {jobs[l].batchNo, jobs[l].batchNo + 1}
          /\ jobs'[l].batchNo = jobs[l].batchNo + 1 =>
                /\ jobs[l].calls = 0
                /\ jobs[l].batchState \in ResolvedStates ]_vars

\* Two jobs side by side, each with one call in flight: the first is at its
\* second batch, sent after its first batch succeeded.
BatchesSequentialWitness ==
    /\ jobs[1].batchNo = 2
    /\ jobs[1].translated = 1
    /\ jobs[1].calls = 1
    /\ jobs[2].batchNo = 1
    /\ jobs[2].calls = 1

(***************************************************************************)
(* Claims about chunking and the existing catalog.                         *)
(***************************************************************************)

\* The batch size asked for on the command line or in the environment; the
\* command-line texts of RunArguments are numerals in 1..100.
BatchSizeRequested ==
    IF args.batchSize.given THEN parseInt(args.batchSize.text).n
    ELSE defaults.BATCH_SIZE.n

\* --force-translate or FORCE_TRANSLATE asks for every entry again.
ForceRequested == args.forceTranslate \/ defaults.FORCE_TRANSLATE

\* The batches of a job, one after the other.
RECURSIVE Flatten(_)
Flatten(cs) == IF cs = <<>> THEN <<>> ELSE Head(cs) \o Flatten(Tail(cs))

\* The entries of the batches a job has dispatched so far.
RECURSIVE Dispatched(_, _)
Dispatched(js, n) ==
    IF n = 0 THEN 0
    ELSE Len(Flatten(SubSeq(js[n].chunks, 1, js[n].batchNo)))
         + Dispatched(js, n - 1)

\* A job that was started: not pending, and not skipped by an abort before
\* it could start.
Started(job) ==
    /\ job.status # "pending"
    /\ ~(job.status = "skipped" /\ job.failedBatches = 0)

\* C15: the batches of a started job, one after the other, are the job's
\* entries to translate in catalog order, each entry once (all of them when
\* no limit on strings is set, the first ones up to the limit otherwise),
\* and every batch holds between 1 and batchSize entries.
ChunksPartition ==
    \A l \in Languages :
        LET cs == jobs[l].chunks
            todo == toTranslate(jobs[l].existing, ForceRequested)
        IN  Started(jobs[l]) =>
              /\ \A i \in 1..Len(cs) : Len(cs[i]) \in 1..BatchSizeRequested
              /\ Len(Flatten(cs)) <= Len(todo)
              /\ Flatten(cs) = SubSeq(todo, 1, Len(Flatten(cs)))
              /\ (~IsNum(config.maxStrings) /\ ~IsNum(config.maxStringsTotal))
                    => Flatten(cs) = todo

\* Batches of one entry: the second of a job's two batches is in flight.
ChunksPartitionWitness ==
    /\ BatchSizeRequested = 1
    /\ jobs[1].chunks = << <<1>>, <<2>> >>
    /\ jobs[1].batchNo = 2
    /\ jobs[1].inflight = 1

\* C16: without forceTranslate, an entry with a translation in the existing
\* catalog is in no batch of its job and keeps its existing translation in
\* the output; the string counter counts the entries of the dispatched
\* batches and nothing else; and when every entry of every language is
\* already translated no batch is dispatched and the output is the
\* existing catalog.
ExistingKept ==
    ~ForceRequested =>
        /\ \A l \in Languages : \A e \in jobs[l].existing :
              /\ \A i \in 1..Len(jobs[l].chunks) :
                    \A k \in 1..Len(jobs[l].chunks[i]) : jobs[l].chunks[i][k] # e
              /\ e \in jobs[l].kept
        /\ run.totalStrings = Dispatched(jobs, NumLanguages)
        /\ (\A l \in Languages : jobs[l].existing = Entries) =>
              /\ run.totalStrings = 0
              /\ \A l \in Languages :
                    /\ jobs[l].batchNo = 0
                    /\ jobs[l].kept = Entries

\* The first language is fully translated already: its job ended without a
\* batch and kept the catalog, the other languages were translated.
ExistingKeptWitness ==
    /\ ~ForceRequested
    /\ pc = "finished"
    /\ jobs[1].existing = Entries
    /\ jobs[1].batchNo = 0
    /\ jobs[1].status = "succeeded"
    /\ jobs[1].kept = Entries
    /\ \A l \in Languages \ {1} :
          jobs[l].kept = {} /\ jobs[l].translated = NumEntries

(***************************************************************************)
(* Claims about the exit status.                                           *)
(***************************************************************************)

\* C17: when the run has ended, the exit status is success exactly when
\* every language's job ended succeeded; it is partial success when the run
\* was not aborted and some language ended skipped or partially failed
\* while another succeeded; it is full failure when the run was aborted or
\* every language failed; the three statuses differ.
ExitStatusAggregates ==
    pc = "finished" =>
        /\ run.exitCode = Num(ExitSuccess)
              <=> \A l \in Languages : jobs[l].status = "succeeded"
        /\ ( /\ ~run.aborted
             /\ \E l \in Languages :
                   jobs[l].status \in {"skipped", "partiallyFailed"}
             /\ \E l \in Languages : jobs[l].status = "succeeded" )
              => run.exitCode = Num(ExitPartial)
        /\ (run.aborted \/ \A l \in Languages : jobs[l].status = "failed")
              => run.exitCode = Num(ExitFailure)
        /\ Cardinality({ExitSuccess, ExitPartial, ExitFailure}) = 3

\* No failure policy: the first language lost one of its two batches, the
\* others succeeded, and the run exited with the partial-success status.
ExitStatusAggregatesWitness ==
    /\ pc = "finished"
    /\ ~run.aborted
    /\ jobs[1].status = "partiallyFailed"
    /\ \A l \in Languages \ {1} : jobs[l].status = "succeeded"
    /\ run.exitCode = Num(ExitPartial)


(***************************************************************************)
(* SpecRunFair: the run under its scheduling.  Every remote call returns   *)
(* or times out, which the pipeline treats as a failure; the event loop    *)
(* runs every continuation that is ready: a job's next dispatch, its       *)
(* completion, and the return of processAllLanguages.                      *)
(***************************************************************************)
CallReturns == \E l \in Languages : CallSucceeds(l) \/ CallFails(l)

SchedulerStep ==
    \/ processAllLanguages
    \/ \E l \in Languages : Dispatch(l)
    \/ \E l \in Languages : FinishJob(l)
    \/ FinishRun

\* Every combination of the failure policies and the three budgets, with
\* the default pool of two workers and with --jobs -1, which is one worker.
FairArguments ==
    { [NoArguments EXCEPT !.jobs = j, !.maxStringsPerJob = s,
                          !.maxTotalStrings = t, !.maxCost = c,
                          !.abortOnFailure = f[1],
                          !.skipLanguageOnFailure = f[2]] :
        j \in {Absent, Given(<<"-", "1">>)},
        s \in {Absent, Given(<<"1">>)},
        t \in {Absent, Given(<<"3">>)},
        c \in {Absent, Given(<<"1">>)},
        f \in {<<FALSE, FALSE>>, <<TRUE, FALSE>>, <<FALSE, TRUE>>} }

\* A run that starts without an existing catalog.
InitRunFair ==
    /\ pc = "configured"
    /\ defaults \in RunDefaults
    /\ args \in FairArguments
    /\ jobs = [l \in Languages |-> jobFor(NoneTranslated[l])]
    /\ config = createConfiguration(parseCliArguments(args, defaults), defaults,
                                    parseEnvironmentConfig(EmptyEnv))
    /\ run = NewRun
    /\ EntityIdle
    /\ PluralIdle
    /\ CodecIdle
    /\ SetupIdle
    /\ SchemaIdle
    /\ MainIdle

SpecRunFair ==
    /\ InitRunFair
    /\ [][NextRun]_vars
    /\ WF_vars(CallReturns)
    /\ WF_vars(SchedulerStep)

ResolvedBatchStates == {"Succeeded", "SucceededWithIssues", "FailedFinal"}

\* C30: every batch that is dispatched eventually reaches Succeeded or
\* FailedFinal, every job eventually reaches a terminal status, and the run
\* eventually ends with an exit status, whatever calls fail and whatever
\* the abort and skip policies and the budgets are.
Termination ==
    /\ \A l \in Languages :
          (jobs[l].batchState = "Dispatched")
              ~> (jobs[l].batchState \in ResolvedBatchStates)
    /\ <>[](\A l \in Languages : jobs[l].status \in TerminalStatuses)
    /\ <>[](pc = "finished" /\ run.exitCode \in {Num(c) : c \in ExitCodes})

\* A run that ended after a batch failed for good under the abort policy,
\* with a language that was never started.
TerminationWitness ==
    /\ pc = "finished"
    /\ config.stopOnMaxRetriesFailure
    /\ run.aborted
    /\ run.exitCode = Num(ExitFailure)
    /\ \E l \in Languages : jobs[l].failedBatches = 1
    /\ \E l \in Languages : jobs[l].status = "skipped"
    /\ \A l \in Languages : jobs[l].status \in TerminalStatuses


(***************************************************************************)
(* SpecConfig: the start-up of main.  The module is loaded with an         *)
(* environment, which fixes DEFAULTS; parseCliArguments reads the command  *)
(* line, or validates the environment's options and prints the help when   *)
(* nothing is given; validateConfiguration accepts the options or the      *)
(* process exits; createConfiguration builds the configuration.            *)
(***************************************************************************)
SetEnv(names, value) ==
    [name \in EnvNames |-> IF name \in names THEN value ELSE Undefined]

\* A valid command line: one language and a catalog template.
ValidArguments ==
    [NoArguments EXCEPT !.targetLanguages = Given(<<"fr_FR">>),
                        !.potFilePath = Given(<<"x.pot">>)]

\* Environments with a generic key and the three tunables set or not.
TunableEnvironments ==
    { [SetEnv({"API_KEY"}, Str(<<"k">>)) EXCEPT
          !["MAX_RETRIES"] = r, !["TEMPERATURE"] = t, !["VERBOSE_LEVEL"] = v] :
        r \in {Undefined, Str(<<"0">>), Str(<<"2">>)},
        t \in {Undefined, Str(<<"1">>)},
        v \in {Undefined, Str(<<"0">>), Str(<<"2">>)} }

\* The tunables on the command line: absent, at the low end of the range,
\* inside it, above it, and a text that is no number.
TunableArguments ==
    { [ValidArguments EXCEPT !.maxRetries = r, !.temperature = t,
                             !.verboseLevel = v, !.jobs = j] :
        r \in {Absent, Given(<<"0">>), Given(<<"5">>), Given(<<"1", "1">>)},
        t \in {Absent, Given(<<"0">>), Given(<<"2">>)},
        v \in {Absent, Given(<<"0">>), Given(<<"3">>), Given(<<"x">>)},
        j \in {Absent, Given(<<"1">>)} }

\* Environments with PROVIDER unset, empty or set, and any of the keys.
ProviderKeyNames ==
    {"OPENAI_API_KEY", "GEMINI_API_KEY", "ANTHROPIC_API_KEY",
     "POTOMATIC_GEMINI_API_KEY", "API_KEY"}

ProviderEnvironments ==
    { [SetEnv(keys, Str(<<"k">>)) EXCEPT !["PROVIDER"] = p] :
        keys \in SUBSET ProviderKeyNames,
        p \in {Undefined, Str(<<>>), Str(<<"gemini">>)} }

ProviderArguments ==
    { [ValidArguments EXCEPT !.provider = p, !.dryRun = d, !.apiKey = k] :
        p \in {Absent, Given(<<"gemini">>), Given(<<"mistral">>),
               Given(<<"anthropic">>)},
        d \in BOOLEAN,
        k \in {Absent, Given(<<"k">>)} }

\* Command lines that miss a requirement: the languages, the template, the
\* key, or a model name of blanks.
RequirementArguments ==
    { [NoArguments EXCEPT !.targetLanguages = l, !.potFilePath = f,
                          !.model = m, !.apiKey = k, !.dryRun = d] :
        l \in {Absent, Given(<<",">>), Given(<<"fr_FR", ",", " ", "de_DE">>)},
        f \in {Absent, Given(<<>>), Given(<<"x.pot">>)},
        m \in {Absent, Given(<<>>), Given(<<" ", " ">>), Given(<<"m">>)},
        k \in {Absent, Given(<<"k">>)},
        d \in BOOLEAN }

\* The five tunables in the environment, in the order BATCH_SIZE,
\* CONCURRENT_JOBS, MAX_RETRIES, RETRY_DELAY, TIMEOUT: all unset, all at the
\* low end, all at the high end, MAX_RETRIES empty, and one of them outside
\* its range or no number.
RangeRows ==
    { <<Undefined, Undefined, Undefined, Undefined, Undefined>>,
      <<Str(<<"1">>), Str(<<"1">>), Str(<<"0">>), Str(<<"5", "0", "0">>),
        Str(<<"1", "0">>)>>,
      <<Str(<<"1", "0", "0">>), Str(<<"1", "0">>), Str(<<"1", "0">>),
        Str(<<"3", "0", "0", "0", "0">>), Str(<<"3", "0", "0">>)>>,
      <<Undefined, Undefined, Str(<<>>), Undefined, Undefined>>,
      <<Str(<<"0">>), Undefined, Undefined, Undefined, Undefined>>,
      <<Undefined, Str(<<"1", "1">>), Undefined, Undefined, Undefined>>,
      <<Undefined, Undefined, Str(<<"-", "1">>), Undefined, Undefined>>,
      <<Undefined, Undefined, Undefined, Str(<<"4", "9", "9">>), Undefined>>,
      <<Undefined, Undefined, Undefined, Undefined, Str(<<"x">>)>>,
      <<Undefined, Undefined, Undefined, Undefined, Str(<<>>)>> }

RangeEnvironments ==
    { [SetEnv({"API_KEY"}, Str(<<"k">>)) EXCEPT
          !["BATCH_SIZE"] = row[1], !["CONCURRENT_JOBS"] = row[2],
          !["MAX_RETRIES"] = row[3], !["RETRY_DELAY"] = row[4],
          !["TIMEOUT"] = row[5]] : row \in RangeRows }

\* The texts of a tunable on the command line: zero, no number, empty,
\* negative, small, large, and a number followed by letters.
RangeTexts ==
    { <<"0">>, <<"x">>, <<>>, <<"-", "5">>, <<"7">>,
      <<"9", "9", "9", "9", "9">>, <<"2", "0", "m", "s">> }

\* Each tunable alone with each text, and all five with the same text.
RangeArguments ==
    { [ValidArguments EXCEPT !.batchSize = Given(t)] : t \in RangeTexts }
    \cup { [ValidArguments EXCEPT !.jobs = Given(t)] : t \in RangeTexts }
    \cup { [ValidArguments EXCEPT !.maxRetries = Given(t)] : t \in RangeTexts }
    \cup { [ValidArguments EXCEPT !.retryDelay = Given(t)] : t \in RangeTexts }
    \cup { [ValidArguments EXCEPT !.timeout = Given(t)] : t \in RangeTexts }
    \cup { [ValidArguments EXCEPT !.batchSize = Given(t), !.jobs = Given(t),
                                  !.maxRetries = Given(t),
                                  !.retryDelay = Given(t),
                                  !.timeout = Given(t)] : t \in RangeTexts }
    \cup { ValidArguments }

InitConfig ==
    /\ pc = "loaded"
    /\ \/ env \in TunableEnvironments /\ args \in TunableArguments
       \/ env \in ProviderEnvironments /\ args \in ProviderArguments
       \/ env \in RangeEnvironments /\ args \in RangeArguments
       \/ env \in {EmptyEnv, SetEnv({"API_KEY"}, Str(<<"k">>))}
          /\ args \in RequirementArguments
    /\ defaults = Defaults(env)
    /\ opts = parseCliArguments(NoArguments, EnvDefaults)
    /\ validation = NotValidated
    /\ config = createConfiguration(parseCliArguments(NoArguments, EnvDefaults),
                                    EnvDefaults,
                                    parseEnvironmentConfig(EmptyEnv))
    /\ jobs = [l \in Languages |-> PendingJob]
    /\ run = NewRun
    /\ EntityIdle
    /\ PluralIdle
    /\ CodecIdle
    /\ SchemaIdle
    /\ MainIdle

\* process.exit(exitCode): the process ends with the code it is given.
mainExitFailureOnly(exitCode) ==
    IF exitCode = ExitSuccess THEN ExitSuccess ELSE ExitFailure

mainExit(exitCode) == exitCode

\* parseEnvironmentConfig at module load: an environment the schema rejects
\* ends the process with status 1.
RejectEnvironment ==
    /\ pc = "loaded"
    /\ ~envSchemaAccepts(env)
    /\ pc' = "exited"
    /\ exitedFrom' = "parseEnvironmentConfig"
    /\ processExit' = ExitFailure
    /\ UNCHANGED <<orchestrator, returned, thrown, entityVars, pluralVars,
                   codecVars, runVars, setupVars, schemaVars>>

\* process.argv.length <= 2 && !hasEnvDefaults
shouldShowHelp == args = NoArguments /\ ~hasEnvDefaults(defaults)

\* parseCliArguments with nothing to work on: the environment's options are
\* validated for the messages, the help is printed and the process exits.
ShowHelp ==
    /\ pc = "loaded"
    /\ envSchemaAccepts(env)
    /\ shouldShowHelp
    /\ opts' = tempOptions(defaults, env)
    /\ validation' = validateConfiguration(tempOptions(defaults, env),
                                           defaults, env)
    /\ pc' = "exited"
    /\ exitedFrom' = "help"
    /\ processExit' = ExitSuccess
    /\ UNCHANGED <<env, orchestrator, returned, thrown, entityVars, pluralVars,
                   codecVars, runVars, schemaVars>>

\* const options = parseCliArguments()
ParseArguments ==
    /\ pc = "loaded"
    /\ envSchemaAccepts(env)
    /\ ~shouldShowHelp
    /\ opts' = parseCliArguments(args, defaults)
    /\ pc' = "parsed"
    /\ UNCHANGED <<env, validation, entityVars, pluralVars, codecVars, runVars, schemaVars, mainVars>>

\* const validation = validateConfiguration(options); an invalid
\* configuration ends the process with status 1.
ValidateOptions ==
    /\ pc = "parsed"
    /\ validation' = validateConfiguration(opts, defaults, env)
    /\ pc' = IF validation'.isValid THEN "validated" ELSE "exited"
    /\ exitedFrom' = IF validation'.isValid THEN exitedFrom ELSE "validation"
    /\ processExit' = IF validation'.isValid THEN processExit
                      ELSE ExitFailure
    /\ UNCHANGED <<env, opts, orchestrator, returned, thrown, entityVars,
                   pluralVars, codecVars, runVars, schemaVars>>

\* const config = createConfiguration(options)
CreateConfiguration ==
    /\ pc = "validated"
    /\ config' = createConfiguration(opts, defaults, parseEnvironmentConfig(env))
    /\ pc' = "created"
    /\ UNCHANGED <<args, defaults, jobs, run, entityVars, pluralVars, codecVars,
                   setupVars, schemaVars, mainVars>>

\* catch (error) { ...; process.exit(1) }: an exception thrown inside main's
\* try block ends the process.
Caught ==
    /\ thrown' = TRUE
    /\ pc' = "exited"
    /\ exitedFrom' = "catch"
    /\ processExit' = ExitFailure

\* const orchestrator = new TranslationOrchestrator(config, mainLogger); the
\* logger or the constructor may throw.
CreateOrchestrator ==
    /\ pc = "created"
    /\ \/ /\ orchestrator' = "constructed"
          /\ pc' = "constructed"
          /\ UNCHANGED <<thrown, exitedFrom, processExit>>
       \/ /\ Caught
          /\ UNCHANGED orchestrator
    /\ UNCHANGED <<returned, entityVars, pluralVars, codecVars, runVars,
                   setupVars, schemaVars>>

\* await orchestrator.initialize()
Initialize ==
    /\ pc = "constructed"
    /\ \/ /\ orchestrator' = "initialized"
          /\ pc' = "initialized"
          /\ UNCHANGED <<thrown, exitedFrom, processExit>>
       \/ /\ Caught
          /\ UNCHANGED orchestrator
    /\ UNCHANGED <<returned, entityVars, pluralVars, codecVars, runVars,
                   setupVars, schemaVars>>

\* const exitCode = await orchestrator.processAllLanguages()
ProcessAllLanguages ==
    /\ pc = "initialized"
    /\ \/ /\ \E code \in ExitCodes : returned' = code
          /\ orchestrator' = "processed"
          /\ pc' = "processed"
          /\ UNCHANGED <<thrown, exitedFrom, processExit>>
       \/ /\ Caught
          /\ UNCHANGED <<orchestrator, returned>>
    /\ UNCHANGED <<entityVars, pluralVars, codecVars, runVars, setupVars,
                   schemaVars>>

\* process.exit(exitCode)
Exit ==
    /\ pc = "processed"
    /\ pc' = "exited"
    /\ exitedFrom' = "main"
    /\ processExit' = mainExit(returned)
    /\ UNCHANGED <<orchestrator, returned, thrown, entityVars, pluralVars,
                   codecVars, runVars, setupVars, schemaVars>>

\* process.on('unhandledRejection'): a promise rejected without a handler
\* while main awaits the orchestrator ends the process.
UnhandledRejection ==
    /\ pc \in {"constructed", "initialized"}
    /\ pc' = "exited"
    /\ exitedFrom' = "unhandledRejection"
    /\ processExit' = ExitFailure
    /\ UNCHANGED <<orchestrator, returned, thrown, entityVars, pluralVars,
                   codecVars, runVars, setupVars, schemaVars>>

NextConfig ==
    \/ RejectEnvironment
    \/ ShowHelp
    \/ ParseArguments
    \/ ValidateOptions
    \/ CreateConfiguration
    \/ CreateOrchestrator
    \/ Initialize
    \/ ProcessAllLanguages
    \/ Exit
    \/ UnhandledRejection

SpecConfig == InitConfig /\ [][NextConfig]_vars

\* A tunable given on the command line with a value inside lo..hi.
GivenInRange(option, lo, hi) ==
    /\ option.given
    /\ IsNum(parseInt(option.text))
    /\ parseInt(option.text).n \in lo..hi

\* C18: a tunable given on the command line with a value inside its range,
\* 0 included for --max-retries, --temperature and --verbose-level, is the
\* value the configuration carries, whatever the environment's default is.
CliTakesPrecedence ==
    pc = "created" =>
        /\ GivenInRange(args.maxRetries, 0, 10)
               => config.maxRetries = parseInt(args.maxRetries.text)
        /\ GivenInRange(args.temperature, 0, 2)
               => config.temperature = parseInt(args.temperature.text)
        /\ GivenInRange(args.verboseLevel, 0, 3)
               => config.verboseLevel = parseInt(args.verboseLevel.text)
        /\ GivenInRange(args.jobs, 1, 10)
               => config.concurrentJobs = parseInt(args.jobs.text)

\* --max-retries 0, --temperature 0 and --verbose-level 0 were given with
\* MAX_RETRIES=2 and VERBOSE_LEVEL=2 in the environment, and the
\* configuration carries 2, 0.7 and 2.
CliZeroFallsBack ==
    /\ pc = "created"
    /\ env["MAX_RETRIES"] = Str(<<"2">>)
    /\ env["TEMPERATURE"] = Undefined
    /\ env["VERBOSE_LEVEL"] = Str(<<"2">>)
    /\ args.maxRetries = Given(<<"0">>)
    /\ args.temperature = Given(<<"0">>)
    /\ args.verboseLevel = Given(<<"0">>)
    /\ opts.maxRetries = Num(0)
    /\ opts.temperature = Num(0)
    /\ opts.verboseLevel = Num(0)
    /\ config.maxRetries = Num(2)
    /\ config.temperature = SevenTenths
    /\ config.verboseLevel = Num(2)

\* The value is a number inside lo..hi.
InRange(v, lo, hi) == IsNum(v) /\ v.n \in lo..hi

\* C26: whatever text is given for --batch-size, --jobs, --max-retries,
\* --retry-delay and --timeout, a text that is no number included, and
\* whatever values the schema accepted from the environment, the
\* configuration carries batchSize in 1..100, concurrentJobs in 1..10,
\* maxRetries in 0..10, retryDelayMs in 500..30000 and timeout in 10..300.
TunablesInRange ==
    pc = "created" =>
        /\ InRange(config.batchSize, 1, 100)
        /\ InRange(config.concurrentJobs, 1, 10)
        /\ InRange(config.maxRetries, 0, 10)
        /\ InRange(config.retryDelayMs, 500, 30000)
        /\ InRange(config.timeout, 10, 300)

\* All five options given as "x" under an environment at the high end of
\* every range: the configuration carries the environment's values.
TunablesInRangeWitness ==
    /\ pc = "created"
    /\ \A option \in {"batchSize", "jobs", "maxRetries", "retryDelay", "timeout"} :
          args[option] = Given(<<"x">>)
    /\ env["RETRY_DELAY"] = Str(<<"3", "0", "0", "0", "0">>)
    /\ opts.retryDelay = NaN
    /\ config.batchSize = Num(100)
    /\ config.concurrentJobs = Num(10)
    /\ config.maxRetries = Num(10)
    /\ config.retryDelayMs = Num(30000)
    /\ config.timeout = Num(300)

\* The first key that is set, in the order --api-key,
\* POTOMATIC_<PROVIDER>_API_KEY, <PROVIDER>_API_KEY, POTOMATIC_API_KEY,
\* API_KEY of the environment.
KeyInOrder ==
    LET providerUpper == toUpperCase(stringOf(config.provider.s))
    IN  JsOr(JsOr(JsOr(JsOr(opts.apiKey,
                            getenv(env, "POTOMATIC_" \o providerUpper \o "_API_KEY")),
                       getenv(env, providerUpper \o "_API_KEY")),
                  getenv(env, "POTOMATIC_API_KEY")),
             getenv(env, "API_KEY"))

\* C27: when validateConfiguration reports the options valid and dryRun is
\* not set, the apiKey of the configuration built from the same options is
\* a non-empty key, the first one set in the order --api-key,
\* POTOMATIC_<PROVIDER>_API_KEY, <PROVIDER>_API_KEY, POTOMATIC_API_KEY,
\* API_KEY.
ValidatedKeyConfigured ==
    (pc = "created" /\ validation.isValid /\ ~opts.dryRun) =>
        /\ config.apiKey.t = "str"
        /\ config.apiKey.s # <<>>
        /\ config.apiKey = KeyInOrder

\* --provider anthropic with ANTHROPIC_API_KEY as the only key: the options
\* are valid and the configuration has no key.
ValidatedWithoutKey ==
    /\ pc = "created"
    /\ validation.isValid
    /\ ~opts.dryRun
    /\ opts.provider = Str(<<"anthropic">>)
    /\ env["ANTHROPIC_API_KEY"] = Str(<<"k">>)
    /\ KeyInOrder = Str(<<"k">>)
    /\ config.apiKey = Undefined

\* main has called validateConfiguration on the parsed options.
MainValidated ==
    /\ pc \notin {"loaded", "parsed"}
    /\ exitedFrom \notin {"help", "parseEnvironmentConfig"}

\* C29: the options are validated before the orchestrator is created; when
\* the validation fails the process exits with code 1 and the orchestrator
\* is never constructed, initialized or run; otherwise the process exits
\* with exactly the code processAllLanguages returned, and an exception
\* thrown while the orchestrator is set up or runs makes the process exit
\* with code 1.
MainOrdering ==
    /\ orchestrator # "none" =>
           /\ MainValidated
           /\ validation = validateConfiguration(opts, defaults, env)
           /\ validation.isValid
    /\ (MainValidated /\ ~validation.isValid) =>
           /\ pc = "exited"
           /\ processExit = ExitFailure
           /\ orchestrator = "none"
           /\ returned = NotExited
    /\ (pc = "exited" /\ orchestrator = "processed") =>
           /\ returned \in ExitCodes
           /\ processExit = returned
    /\ thrown => (pc = "exited" /\ processExit = ExitFailure)
    /\ exitedFrom = "unhandledRejection" => processExit = ExitFailure

\* A run whose processAllLanguages returned 2: the process exited with 2.
MainOrderingWitness ==
    /\ pc = "exited"
    /\ validation.isValid
    /\ orchestrator = "processed"
    /\ returned = ExitPartial
    /\ processExit = ExitPartial
    /\ ~thrown

\* C19: with PROVIDER not set and no --provider, the provider of the final
\* configuration is the one detected from the key variables, and openai
\* only when none is detected.
ProviderAutoDetected ==
    (/\ pc = "created"
     /\ env["PROVIDER"].t = "undef"
     /\ ~args.provider.given)
        => config.provider =
               IF detectProviderFromEnv(env).t = "null" THEN Str(<<"openai">>)
               ELSE detectProviderFromEnv(env)

\* Only GEMINI_API_KEY is set, no --provider is given, gemini is detected,
\* and the configuration is for openai.
GeminiKeyGivesOpenai ==
    /\ pc = "created"
    /\ env = SetEnv({"GEMINI_API_KEY"}, Str(<<"k">>))
    /\ ~args.provider.given
    /\ detectProviderFromEnv(env) = Str(<<"gemini">>)
    /\ config.provider = Str(<<"openai">>)


(***************************************************************************)
(* SpecValidate: validateConfiguration called with an options object, as   *)
(* its unit tests call it: any property may be missing.                    *)
(***************************************************************************)
OptionObjects ==
    { [NoOptions EXCEPT !.provider = p, !.apiKey = k, !.targetLanguages = l,
                        !.potFilePath = f, !.model = m, !.dryRun = d] :
        p \in {Undefined, Str(<<"openai">>), Str(<<"gemini">>),
               Str(<<"mistral">>)},
        k \in {Undefined, Str(<<>>), Str(<<"k">>)},
        l \in {Undefined, Arr(<<>>), Arr(<< <<"fr_FR">> >>)},
        f \in {Undefined, Str(<<>>), Str(<<"x.pot">>)},
        m \in {Undefined, Str(<<>>), Str(<<" ", " ">>), Str(<<"m">>)},
        d \in BOOLEAN }

ValidateKeyNames ==
    {"OPENAI_API_KEY", "GEMINI_API_KEY", "POTOMATIC_GEMINI_API_KEY",
     "POTOMATIC_API_KEY", "API_KEY"}

InitValidate ==
    /\ pc = "called"
    /\ env \in {SetEnv(keys, Str(<<"k">>)) : keys \in SUBSET ValidateKeyNames}
    /\ opts \in OptionObjects
    /\ defaults = Defaults(env)
    /\ validation = NotValidated
    /\ args = NoArguments
    /\ config = createConfiguration(parseCliArguments(NoArguments, EnvDefaults),
                                    EnvDefaults,
                                    parseEnvironmentConfig(EmptyEnv))
    /\ jobs = [l \in Languages |-> PendingJob]
    /\ run = NewRun
    /\ EntityIdle
    /\ PluralIdle
    /\ CodecIdle
    /\ SchemaIdle
    /\ MainIdle

\* validateConfiguration(options)
CallValidate ==
    /\ pc = "called"
    /\ validation' = validateConfiguration(opts, defaults, env)
    /\ pc' = "returned"
    /\ UNCHANGED <<env, opts, entityVars, pluralVars, codecVars, runVars, schemaVars, mainVars>>

NextValidate == CallValidate

SpecValidate == InitValidate /\ [][NextValidate]_vars

\* How many times a message stands in the errors.
Count(message, errors) ==
    Cardinality({i \in 1..Len(errors) : errors[i] = message})

\* 1 when the requirement failed, 0 when it did not.
Failed(requirementFailed) == IF requirementFailed THEN 1 ELSE 0

\* C20: the errors of validateConfiguration hold exactly one message for
\* each failed requirement (no key available while dryRun is not set; no
\* target language; no template path; a model name of blanks only) and no
\* other; isValid is true exactly when there is no error, and with dryRun
\* set a missing key is never an error.
ValidationCollectsAll ==
    pc = "returned" =>
        LET errors == validation.errors
            noKey == ~opts.dryRun /\ ~hasApiKey(opts, defaults, env)
            noLanguage == \/ opts.targetLanguages.t = "undef"
                          \/ opts.targetLanguages.s = <<>>
            noTemplate == opts.potFilePath.t = "undef" \/ opts.potFilePath.s = <<>>
            blankModel == /\ opts.model.t = "str"
                          /\ opts.model.s # <<>>
                          /\ isBlank(opts.model.s)
        IN  /\ Count(ApiKeyRequired, errors) = Failed(noKey)
            /\ Count(TargetLanguageRequired, errors) = Failed(noLanguage)
            /\ Count(PotFileRequired, errors) = Failed(noTemplate)
            /\ Count(ModelNameEmpty, errors) = Failed(blankModel)
            /\ Len(errors) = Failed(noKey) + Failed(noLanguage)
                             + Failed(noTemplate) + Failed(blankModel)
            /\ validation.isValid <=> errors = <<>>
            /\ opts.dryRun => Count(ApiKeyRequired, errors) = 0

\* A call without dryRun in which all four requirements failed returned the
\* four messages.
ValidationCollectsAllWitness ==
    /\ pc = "returned"
    /\ ~opts.dryRun
    /\ opts.targetLanguages = Arr(<<>>)
    /\ opts.model = Str(<<" ", " ">>)
    /\ Len(validation.errors) = 4
    /\ ~validation.isValid


(***************************************************************************)
(* SpecSchema: booleanStringSchema(defaultValue) parses a value: absent,   *)
(* or a word in some letter case between blanks.                           *)
(***************************************************************************)
MaxPad == 1          \* most blanks on each side of a boolean string

BooleanWords ==
    {<<>>, <<"t", "r", "u", "e">>, <<"T", "R", "U", "E">>,
     <<"T", "r", "u", "e">>, <<"f", "a", "l", "s", "e">>,
     <<"F", "A", "L", "S", "E">>, <<"F", "a", "l", "s", "e">>,
     <<"1">>, <<"0">>, <<"2">>, <<"1", "0">>, <<"y", "e", "s">>,
     <<"n", "o">>, <<"N", "O">>, <<"t">>, <<"t", "r", "u">>,
     <<"t", "r", "u", "e", "e">>, <<"t", "r", " ", "u", "e">>,
     <<"o", "n">>}

Blanks(n) == [i \in 1..n |-> " "]

BooleanInputs ==
    {Undefined} \cup
    { Str(Blanks(l) \o w \o Blanks(r)) :
        l \in 0..MaxPad, r \in 0..MaxPad, w \in BooleanWords }

InitSchema ==
    /\ pc = "schema"
    /\ schemaDefault \in BOOLEAN
    /\ schemaInput \in BooleanInputs
    /\ schemaOutput = NotParsedYet
    /\ EntityIdle
    /\ PluralIdle
    /\ CodecIdle
    /\ RunIdle
    /\ SetupIdle
    /\ MainIdle

\* booleanStringSchema(defaultValue).safeParse(value)
ParseBoolean ==
    /\ pc = "schema"
    /\ schemaOutput' = booleanStringSchema(schemaDefault, schemaInput)
    /\ pc' = "parsedBoolean"
    /\ UNCHANGED <<schemaDefault, schemaInput, entityVars, pluralVars,
                   codecVars, runVars, setupVars, mainVars>>

NextSchema == ParseBoolean

SpecSchema == InitSchema /\ [][NextSchema]_vars

\* The text s between its first and its last character that is no blank.
Stripped(s) ==
    LET inked == {i \in 1..Len(s) : s[i] # " "}
    IN  IF inked = {} THEN <<>>
        ELSE SubSeq(s, CHOOSE a \in inked : \A i \in inked : a <= i,
                       CHOOSE b \in inked : \A i \in inked : b >= i)

\* The text s is the word, in any letter case.
Spells(s, word) ==
    Len(s) = Len(word) /\ \A i \in 1..Len(s) : lowerChar(s[i]) = word[i]

====
